---- MODULE Spec2Model ----
(***************************************************************************)
(* Model of the peripheral-emulation core of hw/eos/eos.c: the handler     *)
(* table and its first-match lookup, the interrupt controller              *)
(* (eos_trigger_int, eos_handle_intengine, eos_handle_intengine_vx), the   *)
(* countdown timers (eos_handle_timers), the output-compare timers and the *)
(* periodic callback eos_interrupt_timer_cb / eos_interrupt_timer_body.    *)
(*                                                                         *)
(* 32-bit unsigned quantities that can exceed 2^31 (addresses, the wide    *)
(* clock, countdown values) are kept as pairs <<hi, lo>> of 16-bit halves  *)
(* so that their arithmetic keeps the width of the C types.                *)
(***************************************************************************)
EXTENDS Integers, Sequences, FiniteSets, TLC

\* eos_state: the device state; op: the operation that produced the current state;
\* ticks: timer callbacks run so far; track, flight: observers of the most recent
\* deferred trigger and of the interrupt in flight (see Observers below)
\* scope: the inputs the register handlers and the callback are exercised with
\* threads: the lock and the positions of the CPU thread and the timer thread, where
\* a specification runs a register access or a callback in more than one step
VARIABLES eos_state, op, ticks, track, flight, scope, threads

vars == <<eos_state, op, ticks, track, flight, scope, threads>>

----------------------------------------------------------------------------
(* Bounds of the model *)

\* length of irq_enabled[] / irq_schedule[] (scaled down from the header's value)
INT_ENTRIES == 48

\* number of countdown timer slots that are modelled
NumTimers == 3

\* largest delay a register handler passes to eos_trigger_int
MaxDelay == 2

\* number of timer callbacks explored by the interrupt-controller specification
MaxTicks == 3

\* largest delay and number of callbacks explored by the delayed-delivery specification
MaxDelayTracked == 3

MaxTicksTracked == 3

\* number of timer callbacks explored by the priority specification
MaxTicksPrio == 2

\* number of timer callbacks explored by the countdown specification
MaxTicksCountdown == 36

\* number of timer callbacks explored by the output-compare specification
MaxTicksCompare == 2

\* a DMA transfer starts only while fewer block copies than this changed the memory
MaxRamBlocks == 2

\* number of timer callbacks explored by the DMA completion specification
MaxTicksDma == 3

\* number of timer callbacks explored by the polled DMA specification
MaxTicksCf == 11

\* ticks of the periodic callback with the system timer running
MaxTicksPeriodic == 5

\* number of timer callbacks explored by the dispatch specification
MaxTicksDispatch == 3

\* number of timer callbacks explored by the two-thread specification
MaxTicksSerial == 2

\* number of timer callbacks explored by the re-arming specification
MaxTicksRearm == 4

\* number of timer callbacks explored by the triggered-flag specification
MaxTicksTriggered == 3

\* number of timer callbacks explored by the logging specification
MaxTicksLogging == 2

\* number of timer callbacks explored by the compare-ahead specification
MaxTicksFire == 3

\* number of timer callbacks explored by the shared-interrupt specification
MaxTicksShared == 2

\* number of timer callbacks explored by the countdown-slots specification
MaxTicksSlots == 3

\* number of timer callbacks explored by the clock specification
MaxTicksClock == 3

----------------------------------------------------------------------------
(* Program constants *)

DIGIC_TIMER_STEP == 256

\* 0x000FFFFF & ~(DIGIC_TIMER_STEP-1)
DIGIC_TIMER20_MASK == 1048320

\* model-table values (dryos_timer_interrupt, dryos_timer_id, hptimer_interrupt,
\* cf_driver_interrupt, cf_dma_interrupt)
TIMER_INTERRUPT == 10

CF_DRIVER_INTERRUPT == 34

CF_DMA_INTERRUPT == 35

DRYOS_TIMER_ID == 2

HPTIMER_INTERRUPT == 16

MODE_READ == 0

MODE_WRITE == 1

----------------------------------------------------------------------------
(* uint32_t as <<hi, lo>>, each half in 0..65535 *)

W32(n) == <<n \div 65536, n % 65536>>

W32Add(a, n) ==
    LET lo == a[2] + n
        hi == a[1] + (lo \div 65536)
    IN  <<hi % 65536, lo % 65536>>

\* a > b on uint32_t
W32Gt(a, b) == a[1] > b[1] \/ (a[1] = b[1] /\ a[2] > b[2])


\* v & DIGIC_TIMER32_MASK, i.e. v & 0xFFFFFF00
W32Mask(a) == <<a[1], a[2] - (a[2] % DIGIC_TIMER_STEP)>>

\* v >> 8 (fits 24 bits)
W32Shr8(a) == a[1] * 256 + (a[2] \div 256)

Max(a, b) == IF a > b THEN a ELSE b

----------------------------------------------------------------------------
(* eos_state: the fields of EOSState read or written by the modelled code.  *)
(* cpu_hard is the CPU_INTERRUPT_HARD request line of CURRENT_CPU,          *)
(* hard_raised counts the cpu_interrupt() calls made since the line was     *)
(* last reset (instrumentation), cpu_stopped is cpu_is_stopped(cpu0/cpu1),  *)
(* aborted records a failed assert().  dma_srcAddr, dma_dstAddr, dma_count   *)
(* are the static locals of eos_handle_dma (one set for all channels); ram  *)
(* is the guest memory, kept as the sequence of block copies [src, dst,     *)
(* len] that changed it since the start (see mem_read).  use_icount is the  *)
(* emulator's instruction-counting mode.  cf is CFState: drq is the number  *)
(* of 32-bit words for which the card reports DRQ_STAT during the coming    *)
(* tick; read_done / write_done record that cfdma_read_data /               *)
(* cfdma_write_data took its completion branch in the last tick             *)
(* (instrumentation).  loglevel is qemu_loglevel, kept as the set of the     *)
(* masks that are set; log_last is the tag of the last line written to the  *)
(* log.                                                                     *)

UTimerSlots == 0 .. 7

HPTimerSlots == 0 .. 13

TimerSlots == 0 .. NumTimers - 1

IntIds == 0 .. INT_ENTRIES - 1

\* int utimer_interrupts[] = { 0x0E, 0x1E, 0x2E, 0x3E, 0x4E, 0x5E, 0x6E, 0x7E }
utimer_interrupts == [id \in UTimerSlots |-> 14 + 16 * id]

\* int hptimer_interrupts[] = { 0x18, 0x1A, 0x1C, 0x1E, 0, 0, HPTIMER_INTERRUPT x 8 }
hptimer_interrupts ==
    [pos \in HPTimerSlots |->
        CASE pos = 0 -> 24
          [] pos = 1 -> 26
          [] pos = 2 -> 28
          [] pos = 3 -> 30
          [] pos \in {4, 5} -> 0
          [] OTHER -> HPTIMER_INTERRUPT]

\* the zero-initialised device state
InitState ==
    [ irq_enabled         |-> [i \in IntIds |-> FALSE],
      irq_schedule        |-> [i \in IntIds |-> 0],
      irq_id              |-> 0,
      cpu_hard            |-> FALSE,
      hard_raised         |-> 0,
      cpu_stopped         |-> FALSE,
      interrupt_timer     |-> TRUE,
      aborted             |-> FALSE,
      digic_timer20       |-> 0,
      digic_timer32       |-> W32(0),
      digic_timer20_last_read |-> 0,
      digic_timer32_last_read |-> W32(0),
      loglevel            |-> {},
      log_last            |-> "none",
      dma_srcAddr         |-> W32(0),
      dma_dstAddr         |-> W32(0),
      dma_count           |-> W32(0),
      ram                 |-> << >>,
      stored              |-> {},
      default_mod         |-> 0,
      use_icount          |-> FALSE,
      cf                  |-> [ dma_addr |-> W32(0), dma_count |-> W32(0),
                                dma_read |-> 0, dma_written |-> 0, dma_wait |-> 0,
                                dma_read_request |-> 0, dma_write_request |-> 0,
                                pending_interrupt |-> 0, interrupt_enabled |-> W32(0),
                                ata_interrupt_enabled |-> 0,
                                drq |-> 0, read_done |-> FALSE, write_done |-> FALSE ],
      timer_enabled       |-> [t \in TimerSlots |-> FALSE],
      timer_current_value |-> [t \in TimerSlots |-> W32(0)],
      timer_reload_value  |-> [t \in TimerSlots |-> W32(0)],
      UTimers             |-> [u \in UTimerSlots |->
                                 [active |-> W32(0), output_compare |-> W32(0), triggered |-> W32(0)]],
      HPTimers            |-> [h \in HPTimerSlots |->
                                 [active |-> W32(0), output_compare |-> 0, triggered |-> W32(0)]] ]

----------------------------------------------------------------------------
(* Guest memory *)

\* a uint32_t below 2^31 as an integer
W32Int(v) == v[1] * 65536 + v[2]

\* the byte at address a before any copy: named by its own address
ram_initial(a) == a

\* the byte at address a after the first n block copies of ram: the content of the
\* initial byte it was copied from
RECURSIVE mem_read(_, _, _)
mem_read(ram, n, a) ==
    IF n = 0 THEN ram_initial(a)
    ELSE IF a >= ram[n].dst /\ a < ram[n].dst + ram[n].len
    THEN mem_read(ram, n - 1, ram[n].src + (a - ram[n].dst))
    ELSE mem_read(ram, n - 1, a)

\* eos_mem_read(src, buf, transfer); eos_mem_write(dst, buf, transfer)
\* (a block copied onto itself leaves the memory as it is)
mem_copy(ram, src, dst, transfer) ==
    IF src = dst THEN ram ELSE Append(ram, [src |-> src, dst |-> dst, len |-> transfer])

\* bit i of a uint32_t
Bit(v, i) == IF i < 16 THEN (v[2] \div (2 ^ i)) % 2 = 1
                       ELSE (v[1] \div (2 ^ (i - 16))) % 2 = 1

----------------------------------------------------------------------------
(* Logging *)

\* the masks of qemu_loglevel read by the modelled code
LogMasks == {"CPU_LOG_INT", "EOS_LOG_IO", "EOS_LOG_VERBOSE"}

\* return (qemu_loglevel & mask) != 0
qemu_loglevel_mask(st, mask) == mask \in st.loglevel

\* fprintf(stderr, ...): a line with this tag is written
log_line(st, tag) == [st EXCEPT !.log_last = tag]

\* io_log: returns at once unless "-d io" is set
io_log(st, module_name) ==
    IF ~qemu_loglevel_mask(st, "EOS_LOG_IO") THEN st ELSE log_line(st, module_name)

\* io_log(module_name, ...); return ret;  at the end of a handler
Logged(module_name, r) ==
    IF r.st.aborted THEN r ELSE [st |-> io_log(r.st, module_name), ret |-> r.ret]

\* if (qemu_loglevel_mask(CPU_LOG_INT)) io_log(module_name, ...); return ret;
LoggedInt(module_name, r) ==
    IF qemu_loglevel_mask(r.st, "CPU_LOG_INT") THEN Logged(module_name, r) ELSE r

\* !(qemu_loglevel_mask(CPU_LOG_INT) && qemu_loglevel_mask(EOS_LOG_VERBOSE))
quiet(st) ==
    ~(qemu_loglevel_mask(st, "CPU_LOG_INT") /\ qemu_loglevel_mask(st, "EOS_LOG_VERBOSE"))

----------------------------------------------------------------------------
(* cpu_interrupt(CPU(CURRENT_CPU), CPU_INTERRUPT_HARD) *)
cpu_interrupt(st) ==
    [st EXCEPT !.cpu_hard = TRUE, !.hard_raised = st.hard_raised + 1]

(* cpu_reset_interrupt(CPU(CURRENT_CPU), CPU_INTERRUPT_HARD) *)
cpu_reset_interrupt(st) ==
    [st EXCEPT !.cpu_hard = FALSE, !.hard_raised = 0]

\* eos_trigger_int without the test that no interrupt is active
eos_trigger_int_overwrite(st, id, delay) ==
    IF id = 0
    THEN [st EXCEPT !.aborted = TRUE]
    ELSE IF delay = 0 /\ st.irq_enabled[id]
    THEN cpu_interrupt([st EXCEPT !.irq_id = id, !.irq_enabled[id] = FALSE])
    ELSE LET d == IF ~st.irq_enabled[id] THEN 1 ELSE delay
         IN  [st EXCEPT !.irq_schedule[id] = Max(d, 1)]

\* eos_trigger_int that leaves the activated id enabled
eos_trigger_int_keep_enabled(st, id, delay) ==
    IF id = 0
    THEN [st EXCEPT !.aborted = TRUE]
    ELSE IF delay = 0 /\ st.irq_enabled[id] /\ st.irq_id = 0
    THEN cpu_interrupt([st EXCEPT !.irq_id = id])
    ELSE LET d == IF ~st.irq_enabled[id] THEN 1 ELSE delay
         IN  [st EXCEPT !.irq_schedule[id] = Max(d, 1)]

\* eos_trigger_int that keeps the caller's delay for a disabled id
eos_trigger_int_keep_delay(st, id, delay) ==
    IF id = 0
    THEN [st EXCEPT !.aborted = TRUE]
    ELSE IF delay = 0 /\ st.irq_enabled[id] /\ st.irq_id = 0
    THEN cpu_interrupt([st EXCEPT !.irq_id = id, !.irq_enabled[id] = FALSE])
    ELSE [st EXCEPT !.irq_schedule[id] = Max(delay, 1)]

\* eos_trigger_int without assert(id): id 0 is handled as any other id
eos_trigger_int_any_id(st, id, delay) ==
    IF delay = 0 /\ st.irq_enabled[id] /\ st.irq_id = 0
    THEN cpu_interrupt([st EXCEPT !.irq_id = id, !.irq_enabled[id] = FALSE])
    ELSE LET d == IF ~st.irq_enabled[id] THEN 1 ELSE delay
         IN  [st EXCEPT !.irq_schedule[id] = Max(d, 1)]

\* eos_trigger_int re-arming the periodic id when it activates it at once
eos_trigger_int_rearm(st, id, delay) ==
    IF id = 0
    THEN [st EXCEPT !.aborted = TRUE]
    ELSE IF delay = 0 /\ st.irq_enabled[id] /\ st.irq_id = 0
    THEN cpu_interrupt([st EXCEPT !.irq_id = id, !.irq_enabled[id] = FALSE,
                                  !.irq_schedule[id] =
                                      IF id = TIMER_INTERRUPT
                                      THEN W32Shr8(st.timer_reload_value[DRYOS_TIMER_ID])
                                      ELSE 0])
    ELSE LET d == IF ~st.irq_enabled[id] THEN 1 ELSE delay
         IN  [st EXCEPT !.irq_schedule[id] = Max(d, 1)]

(* eos_trigger_int(id, delay) *)
eos_trigger_int(st, id, delay) ==
    LET s0 == IF qemu_loglevel_mask(st, "CPU_LOG_INT") THEN log_line(st, "EOS") ELSE st
    IN  IF id = 0
        THEN [st EXCEPT !.aborted = TRUE]                      \* assert(id)
        ELSE IF delay = 0 /\ st.irq_enabled[id] /\ st.irq_id = 0
        THEN cpu_interrupt([s0 EXCEPT !.irq_id = id, !.irq_enabled[id] = FALSE])
        ELSE LET d == IF ~st.irq_enabled[id] THEN 1 ELSE delay
             IN  [s0 EXCEPT !.irq_schedule[id] = Max(d, 1)]

----------------------------------------------------------------------------
(* eos_interrupt_timer_body, in the order of the source *)

\* the clocks advanced without the 20-bit mask
clock_step_unmasked(st) ==
    [st EXCEPT !.digic_timer20 = st.digic_timer20 + DIGIC_TIMER_STEP,
               !.digic_timer32 = W32Mask(W32Add(st.digic_timer32, DIGIC_TIMER_STEP))]

\* digic_timer20 / digic_timer32 += DIGIC_TIMER_STEP, masked
clock_step(st) ==
    LET t20 == (st.digic_timer20 + DIGIC_TIMER_STEP) % 1048576
    IN  [st EXCEPT !.digic_timer20 = t20 - (t20 % DIGIC_TIMER_STEP),
                   !.digic_timer32 = W32Mask(W32Add(st.digic_timer32, DIGIC_TIMER_STEP))]

\* the countdown step wrapping as soon as the sum reaches the reload value
countdown_value_ge(cur, reload) ==
    LET v == W32Add(cur, DIGIC_TIMER_STEP)
    IN  IF W32Gt(v, reload) \/ v = reload THEN W32(0) ELSE v

\* one countdown slot: current_value += STEP; if (current_value > reload_value) current_value = 0
countdown_value(cur, reload) ==
    LET v == W32Add(cur, DIGIC_TIMER_STEP)
    IN  IF W32Gt(v, reload) THEN W32(0) ELSE v

\* the countdown loop without the test of timer_enabled
countdown_step_free(st) ==
    [st EXCEPT !.timer_current_value =
        [pos \in TimerSlots |->
            countdown_value(st.timer_current_value[pos], st.timer_reload_value[pos])]]

\* for (pos = 0; pos < COUNT(timer_enabled); pos++)
countdown_step(st) ==
    [st EXCEPT !.timer_current_value =
        [pos \in TimerSlots |->
            IF st.timer_enabled[pos]
            THEN countdown_value(st.timer_current_value[pos], st.timer_reload_value[pos])
            ELSE st.timer_current_value[pos]]]

\* the body of the loop over the interrupt ids, for one pos
irq_activate(st, pos) ==
    cpu_interrupt(
        [st EXCEPT !.log_last =
                       IF qemu_loglevel_mask(st, "CPU_LOG_INT")
                          /\ (pos = TIMER_INTERRUPT => qemu_loglevel_mask(st, "EOS_LOG_VERBOSE"))
                       THEN "EOS"
                       ELSE st.log_last,
                   !.irq_schedule[pos] =
                       IF pos = TIMER_INTERRUPT
                       THEN W32Shr8(st.timer_reload_value[DRYOS_TIMER_ID])
                       ELSE 0,
                   !.irq_id = pos,
                   !.irq_enabled[pos] = FALSE])

\* the loop body counting down before it looks for a due interrupt
irq_pos_early(st, pos) ==
    LET s0 == IF st.irq_schedule[pos] > 1
              THEN [st EXCEPT !.irq_schedule[pos] = st.irq_schedule[pos] - 1]
              ELSE st
    IN  IF s0.irq_schedule[pos] = 1 /\ s0.irq_enabled[pos] /\ s0.irq_id = 0
        THEN irq_activate(s0, pos)
        ELSE s0

\* the loop body without the test that no interrupt is active
irq_pos_overwrite(st, pos) ==
    LET s1 == IF st.irq_schedule[pos] = 1 /\ st.irq_enabled[pos]
              THEN irq_activate(st, pos)
              ELSE st
    IN  IF s1.irq_schedule[pos] > 1
        THEN [s1 EXCEPT !.irq_schedule[pos] = s1.irq_schedule[pos] - 1]
        ELSE s1

\* the loop body giving up an interrupt that is due but cannot be activated
irq_pos_once(st, pos) ==
    IF st.irq_schedule[pos] = 1
    THEN IF st.irq_enabled[pos] /\ st.irq_id = 0
         THEN irq_activate(st, pos)
         ELSE [st EXCEPT !.irq_schedule[pos] = 0]
    ELSE IF st.irq_schedule[pos] > 1
    THEN [st EXCEPT !.irq_schedule[pos] = st.irq_schedule[pos] - 1]
    ELSE st

irq_pos(st, pos) ==
    LET s1 == IF st.irq_schedule[pos] = 1 /\ st.irq_enabled[pos] /\ st.irq_id = 0
              THEN irq_activate(st, pos)
              ELSE st
    IN  IF s1.irq_schedule[pos] > 1
        THEN [s1 EXCEPT !.irq_schedule[pos] = s1.irq_schedule[pos] - 1]
        ELSE s1

\* the loop running upwards, from id 1 to id pos
RECURSIVE irq_scan_up(_, _, _)
irq_scan_up(st, pos, last) ==
    IF pos > last \/ st.aborted THEN st ELSE irq_scan_up(irq_pos(st, pos), pos + 1, last)

irq_scan_ascending(st, pos) == irq_scan_up(st, 1, pos)

\* for (pos = INT_ENTRIES-1; pos > 0; pos--)
RECURSIVE irq_scan(_, _)
irq_scan(st, pos) ==
    IF pos <= 0 \/ st.aborted THEN st ELSE irq_scan(irq_pos(st, pos), pos - 1)

\* the loop body clearing triggered in a tick in which the timer does not match
utimer_pos_level(st, id) ==
    IF st.UTimers[id].active # W32(0) /\ st.UTimers[id].output_compare = st.digic_timer32
    THEN eos_trigger_int([st EXCEPT !.UTimers[id].triggered = W32(1)], utimer_interrupts[id], 0)
    ELSE [st EXCEPT !.UTimers[id].triggered = W32(0)]

\* for (id = 0; id < COUNT(UTimers); id++)
utimer_pos(st, id) ==
    IF st.UTimers[id].active # W32(0) /\ st.UTimers[id].output_compare = st.digic_timer32
    THEN eos_trigger_int([io_log(st, "TIMER") EXCEPT !.UTimers[id].triggered = W32(1)],
                         utimer_interrupts[id], 0)
    ELSE st

RECURSIVE utimer_scan(_, _)
utimer_scan(st, id) ==
    IF id > 7 \/ st.aborted THEN st ELSE utimer_scan(utimer_pos(st, id), id + 1)

\* the match made with >= in place of ==
hptimer_fires_reached(st, pos) ==
    st.HPTimers[pos].active # W32(0) /\ st.digic_timer20 >= st.HPTimers[pos].output_compare

\* for (pos = 0; pos < COUNT(HPTimers); pos++): the slots that fire in this tick
hptimer_fires(st, pos) ==
    st.HPTimers[pos].active # W32(0) /\ st.HPTimers[pos].output_compare = st.digic_timer20

\* the firing slots up to the first one whose assert() fails (all of them if none fails)
hptimer_marked(st) ==
    LET firing == {pos \in HPTimerSlots : hptimer_fires(st, pos)}
        bad    == {pos \in firing : ~(hptimer_interrupts[pos] > 0 /\ hptimer_interrupts[pos] < 64)}
    IN  IF bad = {} THEN firing
        ELSE {pos \in firing : \A b \in bad : pos <= b}

hptimer_mark(st) ==
    LET marked == hptimer_marked(st)
        failed == \E pos \in marked :
                      ~(hptimer_interrupts[pos] > 0 /\ hptimer_interrupts[pos] < 64)
    IN  [st EXCEPT !.log_last = IF marked # {} THEN io_log(st, "HPTimer").log_last
                                                ELSE st.log_last,
                   !.HPTimers = [pos \in HPTimerSlots |->
                                    IF pos \in marked
                                    THEN [st.HPTimers[pos] EXCEPT !.triggered = W32(1)]
                                    ELSE st.HPTimers[pos]],
                   !.aborted = failed]

\* trigger_hptimers[i] of the source, read from the slots marked in this tick
trigger_hptimers(st0) ==
    {hptimer_interrupts[pos] : pos \in hptimer_marked(st0)}

\* for (i = 1; i < COUNT(trigger_hptimers); i++) if (trigger_hptimers[i]) eos_trigger_int(i, 0)
RECURSIVE hptimer_trigger(_, _, _)
hptimer_trigger(st, set, i) ==
    IF i >= 64 \/ st.aborted THEN st
    ELSE hptimer_trigger(IF i \in set THEN eos_trigger_int(st, i, 0) ELSE st, set, i + 1)

\* the interrupts triggered a second time when more than one slot fired
hptimer_step_each(st) ==
    LET s1 == hptimer_mark(st)
        s2 == IF s1.aborted THEN s1 ELSE hptimer_trigger(s1, trigger_hptimers(st), 1)
    IN  IF s2.aborted \/ Cardinality(hptimer_marked(st)) < 2 THEN s2
        ELSE hptimer_trigger(s2, trigger_hptimers(st), 1)

hptimer_step(st) ==
    LET s1 == hptimer_mark(st)
    IN  IF s1.aborted THEN s1 ELSE hptimer_trigger(s1, trigger_hptimers(st), 1)

\* the data word the card supplies at position pos of the transfer (never a RAM address)
cf_data(pos) == pos - 2 ^ 30

(* cfdma_trigger_interrupt *)
cfdma_trigger_interrupt(st) ==
    LET en == st.cf.interrupt_enabled
        s1 == IF Bit(en, 0) \/ Bit(en, 25)                      \* & 0x2000001
              THEN (IF CF_DRIVER_INTERRUPT = 0 THEN [st EXCEPT !.aborted = TRUE]
                    ELSE eos_trigger_int(st, CF_DRIVER_INTERRUPT, 0))
              ELSE st
    IN  IF s1.aborted THEN s1
        ELSE IF Bit(en, 16)                                     \* & 0x10000
        THEN (IF CF_DMA_INTERRUPT = 0 THEN [s1 EXCEPT !.aborted = TRUE]
              ELSE eos_trigger_int(s1, CF_DMA_INTERRUPT, 0))
        ELSE s1

\* number of words moved by the while loop: as long as words remain and DRQ_STAT is set
cfdma_words(st, done) ==
    LET left == (W32Int(st.cf.dma_count) - done) \div 4
    IN  IF left <= 0 THEN 0 ELSE IF st.cf.drq < left THEN st.cf.drq ELSE left

\* cfdma_read_data finishing as soon as all data was read, whatever dma_wait
cfdma_read_data_nowait(st) ==
    IF W32Int(st.cf.dma_count) % 4 # 0 THEN [st EXCEPT !.aborted = TRUE]
    ELSE LET words == cfdma_words(st, st.cf.dma_read)
             s1 == [st EXCEPT
                       !.ram = IF words = 0 THEN st.ram
                               ELSE mem_copy(st.ram, cf_data(st.cf.dma_read),
                                             W32Int(st.cf.dma_addr) + st.cf.dma_read, 4 * words),
                       !.cf.dma_read = st.cf.dma_read + 4 * words,
                       !.cf.dma_wait = st.cf.dma_wait - 1]
         IN  IF s1.cf.dma_read = W32Int(s1.cf.dma_count)
             THEN cfdma_trigger_interrupt([s1 EXCEPT !.cf.read_done = TRUE,
                                                     !.cf.dma_read_request = 0])
             ELSE [s1 EXCEPT !.cf.dma_read_request = 1]

\* cfdma_read_data returning 1 when it has finished, so that the request stays pending
cfdma_read_data_again(st) ==
    IF W32Int(st.cf.dma_count) % 4 # 0 THEN [st EXCEPT !.aborted = TRUE]
    ELSE LET words == cfdma_words(st, st.cf.dma_read)
             s1 == [st EXCEPT
                       !.ram = IF words = 0 THEN st.ram
                               ELSE mem_copy(st.ram, cf_data(st.cf.dma_read),
                                             W32Int(st.cf.dma_addr) + st.cf.dma_read, 4 * words),
                       !.cf.dma_read = st.cf.dma_read + 4 * words,
                       !.cf.dma_wait = st.cf.dma_wait - 1]
         IN  IF s1.cf.dma_read = W32Int(s1.cf.dma_count) /\ s1.cf.dma_wait <= 0
             THEN IF ~(s1.cf.dma_wait = 0 \/ ~s1.use_icount)
                  THEN [s1 EXCEPT !.aborted = TRUE]
                  ELSE cfdma_trigger_interrupt([s1 EXCEPT !.cf.read_done = TRUE,
                                                          !.cf.dma_read_request = 1])
             ELSE [s1 EXCEPT !.cf.dma_read_request = 1]

(* cfdma_read_data; the value returned is stored in cf.dma_read_request *)
cfdma_read_data(st) ==
    IF W32Int(st.cf.dma_count) % 4 # 0 THEN [st EXCEPT !.aborted = TRUE]
    ELSE LET words == cfdma_words(st, st.cf.dma_read)
             s1 == [st EXCEPT
                       !.ram = IF words = 0 THEN st.ram
                               ELSE mem_copy(st.ram, cf_data(st.cf.dma_read),
                                             W32Int(st.cf.dma_addr) + st.cf.dma_read, 4 * words),
                       !.cf.dma_read = st.cf.dma_read + 4 * words,
                       !.cf.dma_wait = st.cf.dma_wait - 1]
         IN  IF s1.cf.dma_read = W32Int(s1.cf.dma_count) /\ s1.cf.dma_wait <= 0
             THEN IF ~(s1.cf.dma_wait = 0 \/ ~s1.use_icount)
                  THEN [s1 EXCEPT !.aborted = TRUE]
                  ELSE cfdma_trigger_interrupt([s1 EXCEPT !.cf.read_done = TRUE,
                                                          !.cf.dma_read_request = 0])
             ELSE [s1 EXCEPT !.cf.dma_read_request = 1]

(* cfdma_write_data; the value returned is stored in cf.dma_write_request *)
cfdma_write_data(st) ==
    IF W32Int(st.cf.dma_count) % 4 # 0 THEN [st EXCEPT !.aborted = TRUE]
    ELSE LET words == cfdma_words(st, st.cf.dma_written)
             s1 == [st EXCEPT
                       !.cf.dma_written = st.cf.dma_written + 4 * words,
                       !.cf.dma_wait = st.cf.dma_wait - 1]
         IN  IF s1.cf.dma_written = W32Int(s1.cf.dma_count) /\ s1.cf.dma_wait <= 0
             THEN IF ~(s1.cf.dma_wait = 0 \/ ~s1.use_icount)
                  THEN [s1 EXCEPT !.aborted = TRUE]
                  ELSE cfdma_trigger_interrupt([s1 EXCEPT !.cf.write_done = TRUE,
                                                          !.cf.dma_write_request = 0])
             ELSE [s1 EXCEPT !.cf.dma_write_request = 1]

\* if (cf.pending_interrupt && cf.interrupt_enabled == 1) { cfdma_trigger_interrupt(); ... }
cf_pending_step(st) ==
    IF st.cf.pending_interrupt # 0 /\ st.cf.interrupt_enabled = W32(1)
    THEN LET s1 == cfdma_trigger_interrupt(st)
         IN  IF s1.aborted THEN s1 ELSE [s1 EXCEPT !.cf.pending_interrupt = 0]
    ELSE st

\* the CF part of the tick: read request, write request, pending ATA interrupt
cf_step(st) ==
    LET s0 == [st EXCEPT !.cf.read_done = FALSE, !.cf.write_done = FALSE]
        s1 == IF s0.cf.dma_read_request # 0 THEN cfdma_read_data(s0) ELSE s0
        s2 == IF s1.aborted THEN s1
              ELSE IF s1.cf.dma_write_request # 0 THEN cfdma_write_data(s1) ELSE s1
    IN  IF s2.aborted THEN s2 ELSE cf_pending_step(s2)

eos_interrupt_timer_body(st) ==
    IF st.cpu_stopped
    THEN st                                  \* don't loop thread if cpu stopped in gdb
    ELSE LET s1 == countdown_step(clock_step(st))
             s2 == irq_scan(s1, INT_ENTRIES - 1)
             s3 == utimer_scan(s2, 0)
             s4 == IF s3.aborted THEN s3 ELSE hptimer_step(s3)
         IN  IF s4.aborted THEN s4 ELSE cf_step(s4)

\* the callback leaving without timer_mod_anticipate_ns when the body returned early
eos_interrupt_timer_cb_early(st) ==
    LET s1 == eos_interrupt_timer_body([st EXCEPT !.interrupt_timer = FALSE])
    IN  IF s1.aborted \/ st.cpu_stopped THEN s1 ELSE [s1 EXCEPT !.interrupt_timer = TRUE]

(* eos_interrupt_timer_cb: run when interrupt_timer expires; the body, then          *)
(* timer_mod_anticipate_ns(interrupt_timer, now + DIGIC_TIMER_STEP * 1000)           *)
eos_interrupt_timer_cb(st) ==
    LET s1 == eos_interrupt_timer_body([st EXCEPT !.interrupt_timer = FALSE])
    IN  IF s1.aborted THEN s1 ELSE [s1 EXCEPT !.interrupt_timer = TRUE]

----------------------------------------------------------------------------
(* Register handlers: each returns the new state and the value read.        *)
(* address and value are uint32_t pairs <<hi, lo>>.                         *)

Ret(st, ret) == [st |-> st, ret |-> ret]

\* 0xC0201000, 0xC0201004, 0xD4011000, 0xD0211000, 0xD231A000, 0xD02C0290
IntReasonAddrs ==
    { <<49184, 4096>>, <<49184, 4100>>, <<54273, 4096>>,
      <<53281, 4096>>, <<53809, 40960>>, <<53292, 656>> }

\* 0xC0201010, 0xD4011010, 0xD0211010, 0xD231A010, 0xD02C029C
IntEnableAddrs ==
    { <<49184, 4112>>, <<54273, 4112>>, <<53281, 4112>>, <<53809, 40976>>, <<53292, 668>> }

\* 0xC0201200, 0xD4011200, 0xD0211200, 0xD231A200, 0xD02C02CC
IntResetAddrs ==
    { <<49184, 4608>>, <<54273, 4608>>, <<53281, 4608>>, <<53809, 41472>>, <<53292, 716>> }

\* eos_handle_intengine whose reason register does not reset on read
eos_handle_intengine_sticky(st, address, type, value) ==
    IF address \in IntReasonAddrs
    THEN IF type = MODE_WRITE
         THEN Ret(st, W32(0))
         ELSE Ret(st, W32(IF address[2] % 16 # 0 THEN st.irq_id * 4 ELSE st.irq_id))
    ELSE IF address \in IntEnableAddrs
    THEN IF type = MODE_WRITE /\ value[1] = 0 /\ value[2] < INT_ENTRIES
         THEN Ret([st EXCEPT !.irq_enabled[value[2]] = TRUE], W32(0))
         ELSE Ret(st, W32(0))
    ELSE IF address \in IntResetAddrs
    THEN IF type = MODE_WRITE /\ value # W32(0)
         THEN Ret(cpu_reset_interrupt([st EXCEPT !.irq_id = 0]), W32(0))
         ELSE Ret(st, W32(0))
    ELSE Ret(st, W32(0))

(* eos_handle_intengine *)
\* the reason register read that clears irq_id and leaves the line asserted
eos_handle_intengine_line_kept(st, address, type, value) ==
    IF address \in IntReasonAddrs
    THEN IF type = MODE_WRITE
         THEN LoggedInt("INT", Ret(st, W32(0)))
         ELSE LET r == Ret([st EXCEPT !.irq_id = 0],
                           W32(IF address[2] % 16 # 0 THEN st.irq_id * 4 ELSE st.irq_id))
              IN  IF st.irq_id = TIMER_INTERRUPT /\ quiet(st)
                  THEN r
                  ELSE LoggedInt("INT", r)
    ELSE IF address \in IntEnableAddrs
    THEN IF type = MODE_WRITE
         THEN LET r == IF value[1] = 0 /\ value[2] < INT_ENTRIES
                       THEN Ret([st EXCEPT !.irq_enabled[value[2]] = TRUE], W32(0))
                       ELSE Ret(st, W32(0))
              IN  IF value = W32(TIMER_INTERRUPT) /\ quiet(st)
                  THEN r
                  ELSE LoggedInt("INT", r)
         ELSE Ret(st, W32(0))
    ELSE IF address \in IntResetAddrs
    THEN IF type = MODE_WRITE /\ value # W32(0)
         THEN LoggedInt("INT", Ret(cpu_reset_interrupt([st EXCEPT !.irq_id = 0]), W32(0)))
         ELSE LoggedInt("INT", Ret(st, W32(0)))
    ELSE LoggedInt("INT", Ret(st, W32(0)))

eos_handle_intengine(st, address, type, value) ==
    IF address \in IntReasonAddrs
    THEN IF type = MODE_WRITE
         THEN LoggedInt("INT", Ret(st, W32(0)))
         ELSE \* ret = irq_id << ((address & 0xF) ? 2 : 0); the register resets on read
              LET r == Ret(cpu_reset_interrupt([st EXCEPT !.irq_id = 0]),
                           W32(IF address[2] % 16 # 0 THEN st.irq_id * 4 ELSE st.irq_id))
              IN  IF st.irq_id = TIMER_INTERRUPT /\ quiet(st)
                  THEN r                                   \* timer interrupt, quiet
                  ELSE LoggedInt("INT", r)
    ELSE IF address \in IntEnableAddrs
    THEN IF type = MODE_WRITE
         THEN LET r == IF value[1] = 0 /\ value[2] < INT_ENTRIES
                       THEN Ret([st EXCEPT !.irq_enabled[value[2]] = TRUE], W32(0))
                       ELSE Ret(st, W32(0))
              IN  IF value = W32(TIMER_INTERRUPT) /\ quiet(st)
                  THEN r                                   \* timer interrupt, quiet
                  ELSE LoggedInt("INT", r)
         ELSE Ret(st, W32(0))                              \* return 0
    ELSE IF address \in IntResetAddrs
    THEN IF type = MODE_WRITE /\ value # W32(0)
         THEN LoggedInt("INT", Ret(cpu_reset_interrupt([st EXCEPT !.irq_id = 0]), W32(0)))
         ELSE LoggedInt("INT", Ret(st, W32(0)))
    ELSE LoggedInt("INT", Ret(st, W32(0)))

(* eos_handle_intengine_vx: the interrupts named by the set bits of value *)
vx_ids(address, value) ==
    { ((address[2] % 256) \div 16) * 8 + i : i \in {j \in 0 .. 31 : Bit(value, j)} }

eos_handle_intengine_vx(st, address, type, value) ==
    LoggedInt("INTvx",
    LET ids == vx_ids(address, value) \cap IntIds
    IN  IF address[2] % 16 = 12
        THEN Ret([st EXCEPT !.irq_enabled =
                     [i \in IntIds |-> IF i \in ids THEN FALSE ELSE st.irq_enabled[i]]], W32(0))
        ELSE IF address[2] % 16 = 8 /\ type = MODE_WRITE
        THEN Ret([st EXCEPT !.irq_enabled =
                     [i \in IntIds |-> IF i \in ids THEN TRUE ELSE st.irq_enabled[i]]], W32(0))
        ELSE Ret(st, W32(0)))

(* eos_handle_timers *)
timers_id(parm, address) ==
    IF parm = 0 THEN (address[2] % 4096) \div 256
    ELSE IF parm = 2 THEN 11
    ELSE -1

\* the start of any slot triggering the timer interrupt
eos_handle_timers_any_slot(st, parm, address, type, value) ==
    Logged("TIMER",
    LET timer_id == timers_id(parm, address)
        reg      == address[2] % 32
    IN  IF timer_id < 0 THEN Ret([st EXCEPT !.aborted = TRUE], W32(0))
        ELSE IF ~(timer_id < NumTimers) THEN Ret(st, W32(0))
        ELSE IF reg = 0
        THEN IF type # MODE_WRITE THEN Ret(st, W32(0))
             ELSE IF value[2] % 2 = 1
             THEN LET s1 == eos_trigger_int(st, TIMER_INTERRUPT,
                                            W32Shr8(st.timer_reload_value[timer_id]))
                  IN  Ret([s1 EXCEPT !.timer_enabled[timer_id] = TRUE], W32(0))
             ELSE Ret([st EXCEPT !.timer_enabled[timer_id] = FALSE,
                                 !.timer_current_value[timer_id] = W32(0)], W32(0))
        ELSE IF reg = 8
        THEN IF type = MODE_WRITE
             THEN Ret([st EXCEPT !.timer_reload_value[timer_id] = value], W32(0))
             ELSE Ret(st, st.timer_reload_value[timer_id])
        ELSE IF reg = 12
        THEN Ret(st, st.timer_current_value[timer_id])
        ELSE Ret(st, W32(0)))

eos_handle_timers(st, parm, address, type, value) ==
    Logged("TIMER",
    LET timer_id == timers_id(parm, address)
        reg      == address[2] % 32
    IN  IF timer_id < 0 THEN Ret([st EXCEPT !.aborted = TRUE], W32(0))
        ELSE IF ~(timer_id < NumTimers) THEN Ret(st, W32(0))
        ELSE IF reg = 0
        THEN IF type # MODE_WRITE THEN Ret(st, W32(0))
             ELSE IF value[2] % 2 = 1
             THEN LET s1 == IF DRYOS_TIMER_ID # 0 /\ timer_id = DRYOS_TIMER_ID
                            THEN eos_trigger_int(st, TIMER_INTERRUPT,
                                                 W32Shr8(st.timer_reload_value[timer_id]))
                            ELSE st
                  IN  Ret([s1 EXCEPT !.timer_enabled[timer_id] = TRUE], W32(0))
             ELSE Ret([st EXCEPT !.timer_enabled[timer_id] = FALSE,
                                 !.timer_current_value[timer_id] = W32(0)], W32(0))
        ELSE IF reg = 8
        THEN IF type = MODE_WRITE
             THEN Ret([st EXCEPT !.timer_reload_value[timer_id] = value], W32(0))
             ELSE Ret(st, st.timer_reload_value[timer_id])
        ELSE IF reg = 12
        THEN Ret(st, st.timer_current_value[timer_id])
        ELSE Ret(st, W32(0)))

\* a - b on uint32_t
W32Sub(a, b) ==
    LET lo == a[2] - b[2]
        hi == a[1] - b[1] - (IF lo < 0 THEN 1 ELSE 0)
    IN  <<hi % 65536, lo % 65536>>

\* (int32_t) v < 0
W32Neg(v) == v[1] >= 32768

(* eos_handle_utimer *)
eos_handle_utimer(st, address, type, value) ==
    Logged("TIMER",
    LET timer_id == ((address[2] % 4096) \div 64) - 9
        reg      == address[2] % 64
    IN  IF reg = 0
        THEN IF type = MODE_WRITE
             THEN Ret([st EXCEPT !.UTimers[timer_id].active = value], W32(0))
             ELSE Ret(st, st.UTimers[timer_id].active)
        ELSE IF reg = 8
        THEN IF type = MODE_WRITE
             THEN LET rounded == W32Mask(W32Add(value, DIGIC_TIMER_STEP))
                      oc == IF W32Neg(W32Sub(rounded, st.digic_timer32))
                            THEN W32Add(st.digic_timer32, DIGIC_TIMER_STEP)
                            ELSE rounded
                  IN  Ret([st EXCEPT !.UTimers[timer_id].output_compare = oc], W32(0))
             ELSE Ret(st, st.UTimers[timer_id].output_compare)
        ELSE IF reg = 16
        THEN IF type = MODE_WRITE
             THEN Ret([st EXCEPT !.UTimers[timer_id].triggered = value], W32(0))
             ELSE Ret(st, st.UTimers[timer_id].triggered)
        ELSE Ret(st, W32(0)))

\* ret |= 1 << (2*i+4) for every triggered HPTimers[6+i], i < 8
RECURSIVE hptimer_status(_, _)
hptimer_status(st, i) ==
    IF i >= 8 THEN 0
    ELSE (IF st.HPTimers[6 + i].triggered # W32(0) THEN 2 ^ (2 * i + 4) ELSE 0)
         + hptimer_status(st, i + 1)

(* eos_handle_hptimer *)
eos_handle_hptimer(st, address, type, value) ==
    Logged("HPTimer",
    LET timer_id == (address[2] % 256) \div 16
        reg      == (address[2] % 4096) - 16 * timer_id      \* address & 0xF0F
    IN  IF reg = 260
        THEN IF type = MODE_WRITE
             THEN LET v20     == (value[1] % 16) * 65536 + value[2]
                      r       == (v20 + DIGIC_TIMER_STEP) % 1048576
                      rounded == r - (r % DIGIC_TIMER_STEP)
                      delay20 == (rounded - st.digic_timer20) % 1048576
                      oc == IF delay20 >= 524288            \* sign bit of the 20-bit difference
                            THEN st.digic_timer20 + DIGIC_TIMER_STEP
                            ELSE rounded
                  IN  Ret([st EXCEPT !.HPTimers[timer_id].output_compare = oc], W32(0))
             ELSE Ret(st, W32(st.HPTimers[timer_id].output_compare))
        ELSE IF reg = 512
        THEN IF type = MODE_WRITE
             THEN Ret([st EXCEPT !.HPTimers[timer_id].active = value], W32(0))
             ELSE Ret(st, st.HPTimers[timer_id].active)
        ELSE IF reg = 516
        THEN IF type = MODE_WRITE
             THEN Ret([st EXCEPT !.HPTimers[timer_id].triggered = W32(0)], W32(0))
             ELSE Ret(st, W32(0))
        ELSE IF reg = 768 /\ type # MODE_WRITE
        THEN Ret(st, W32(hptimer_status(st, 0)))
        ELSE Ret(st, W32(0)))

----------------------------------------------------------------------------
(* The handler table and its lookup *)

\* EOSRegionHandler eos_handlers[] : label, start, end, handler, parameter
eos_handlers ==
    <<
       [label |-> "FlashControl", start |-> <<49152, 0>>, end |-> <<49152, 8191>>, handle |-> "eos_handle_flashctrl", parm |-> 0],
       [label |-> "Interrupt", start |-> <<49184, 0>>, end |-> <<49184, 255>>, handle |-> "eos_handle_intengine_vx", parm |-> 0],
       [label |-> "Interrupt", start |-> <<49184, 4096>>, end |-> <<49184, 8191>>, handle |-> "eos_handle_intengine", parm |-> 0],
       [label |-> "Interrupt", start |-> <<54273, 4096>>, end |-> <<54273, 8191>>, handle |-> "eos_handle_intengine", parm |-> 1],
       [label |-> "Interrupt", start |-> <<54529, 4096>>, end |-> <<54529, 8191>>, handle |-> "eos_handle_intengine", parm |-> 2],
       [label |-> "Interrupt", start |-> <<53292, 512>>, end |-> <<53292, 767>>, handle |-> "eos_handle_intengine", parm |-> 3],
       [label |-> "Interrupt", start |-> <<49408, 0>>, end |-> <<49408, 65535>>, handle |-> "eos_handle_intengine_gic", parm |-> 7],
       [label |-> "Interrupt", start |-> <<53281, 4096>>, end |-> <<53281, 8191>>, handle |-> "eos_handle_intengine", parm |-> 8],
       [label |-> "Interrupt", start |-> <<53283, 4096>>, end |-> <<53283, 8191>>, handle |-> "eos_handle_intengine", parm |-> 9],
       [label |-> "Interrupt", start |-> <<53809, 40960>>, end |-> <<53809, 45055>>, handle |-> "eos_handle_intengine", parm |-> 4],
       [label |-> "Interrupt", start |-> <<53811, 40960>>, end |-> <<53811, 45055>>, handle |-> "eos_handle_intengine", parm |-> 5],
       [label |-> "Multicore", start |-> <<49424, 0>>, end |-> <<49424, 65535>>, handle |-> "eos_handle_multicore", parm |-> 7],
       [label |-> "Timers", start |-> <<49185, 0>>, end |-> <<49185, 4095>>, handle |-> "eos_handle_timers", parm |-> 0],
       [label |-> "Timers", start |-> <<53292, 5376>>, end |-> <<53292, 5631>>, handle |-> "eos_handle_timers", parm |-> 2],
       [label |-> "Timer", start |-> <<49188, 8212>>, end |-> <<49188, 8212>>, handle |-> "eos_handle_digic_timer", parm |-> 0],
       [label |-> "Timer", start |-> <<54272, 12>>, end |-> <<54272, 12>>, handle |-> "eos_handle_digic_timer", parm |-> 1],
       [label |-> "Timer", start |-> <<55682, 20>>, end |-> <<55682, 20>>, handle |-> "eos_handle_digic_timer", parm |-> 2],
       [label |-> "Timer", start |-> <<53280, 12>>, end |-> <<53280, 12>>, handle |-> "eos_handle_digic_timer", parm |-> 3],
       [label |-> "UTimer", start |-> <<54272, 576>>, end |-> <<54272, 1088>>, handle |-> "eos_handle_utimer", parm |-> 1],
       [label |-> "UTimer", start |-> <<53280, 576>>, end |-> <<53280, 1088>>, handle |-> "eos_handle_utimer", parm |-> 2],
       [label |-> "UTimer", start |-> <<53808, 576>>, end |-> <<53808, 1088>>, handle |-> "eos_handle_utimer", parm |-> 3],
       [label |-> "HPTimer", start |-> <<49188, 12288>>, end |-> <<49188, 16383>>, handle |-> "eos_handle_hptimer", parm |-> 0],
       [label |-> "GPIO", start |-> <<49186, 0>>, end |-> <<49186, 65535>>, handle |-> "eos_handle_gpio", parm |-> 0],
       [label |-> "Basic", start |-> <<49168, 0>>, end |-> <<49168, 4095>>, handle |-> "eos_handle_basic", parm |-> 0],
       [label |-> "Basic", start |-> <<49216, 0>>, end |-> <<49216, 4095>>, handle |-> "eos_handle_basic", parm |-> 1],
       [label |-> "Basic", start |-> <<49266, 0>>, end |-> <<49266, 4095>>, handle |-> "eos_handle_basic", parm |-> 2],
       [label |-> "SDIO0", start |-> <<49344, 0>>, end |-> <<49344, 4095>>, handle |-> "eos_handle_sdio", parm |-> 0],
       [label |-> "SDIO1", start |-> <<49345, 0>>, end |-> <<49345, 4095>>, handle |-> "eos_handle_sdio", parm |-> 1],
       [label |-> "SDIO2", start |-> <<49346, 0>>, end |-> <<49346, 4095>>, handle |-> "eos_handle_sdio", parm |-> 2],
       [label |-> "SFIO4", start |-> <<49348, 0>>, end |-> <<49348, 4095>>, handle |-> "eos_handle_sfio", parm |-> 4],
       [label |-> "SDIO85", start |-> <<51205, 0>>, end |-> <<51205, 4095>>, handle |-> "eos_handle_sdio", parm |-> 133],
       [label |-> "SDIO86", start |-> <<51206, 0>>, end |-> <<51206, 4095>>, handle |-> "eos_handle_sdio", parm |-> 134],
       [label |-> "SFIO87", start |-> <<51207, 0>>, end |-> <<51207, 4095>>, handle |-> "eos_handle_sfio", parm |-> 135],
       [label |-> "SFIO88", start |-> <<51208, 0>>, end |-> <<51208, 4095>>, handle |-> "eos_handle_sfio", parm |-> 136],
       [label |-> "SDIOM50", start |-> <<53364, 0>>, end |-> <<53364, 4095>>, handle |-> "eos_handle_sdio", parm |-> 80],
       [label |-> "SDIOR6_1", start |-> <<53937, 0>>, end |-> <<53937, 4095>>, handle |-> "eos_handle_sdio", parm |-> 80],
       [label |-> "ADTGDMA", start |-> <<49232, 96>>, end |-> <<49232, 127>>, handle |-> "eos_handle_adtg_dma", parm |-> 0],
       [label |-> "UartDMA", start |-> <<49232, 192>>, end |-> <<49232, 223>>, handle |-> "eos_handle_uart_dma", parm |-> 0],
       [label |-> "CFDMA0*", start |-> <<49232, 0>>, end |-> <<49232, 255>>, handle |-> "eos_handle_cfdma", parm |-> 15],
       [label |-> "CFDMA10", start |-> <<49233, 0>>, end |-> <<49233, 31>>, handle |-> "eos_handle_cfdma", parm |-> 16],
       [label |-> "SDDMA1*", start |-> <<49233, 0>>, end |-> <<49233, 255>>, handle |-> "eos_handle_sddma", parm |-> 31],
       [label |-> "CFDMA30", start |-> <<49235, 0>>, end |-> <<49235, 31>>, handle |-> "eos_handle_cfdma", parm |-> 48],
       [label |-> "SFDMA33", start |-> <<49235, 96>>, end |-> <<49235, 127>>, handle |-> "eos_handle_sfdma", parm |-> 51],
       [label |-> "SDDMA3*", start |-> <<49235, 0>>, end |-> <<49235, 255>>, handle |-> "eos_handle_sddma", parm |-> 63],
       [label |-> "SDDMA82*", start |-> <<51202, 0>>, end |-> <<51202, 255>>, handle |-> "eos_handle_sddma", parm |-> 2095],
       [label |-> "SFDMA83*", start |-> <<51203, 0>>, end |-> <<51203, 255>>, handle |-> "eos_handle_sfdma", parm |-> 2111],
       [label |-> "SFDMA84*", start |-> <<51204, 0>>, end |-> <<51204, 255>>, handle |-> "eos_handle_sfdma", parm |-> 2127],
       [label |-> "SDDMAM50", start |-> <<53361, 0>>, end |-> <<53361, 4095>>, handle |-> "eos_handle_sddma", parm |-> 80],
       [label |-> "CFATA0", start |-> <<49248, 0>>, end |-> <<49248, 65535>>, handle |-> "eos_handle_cfata", parm |-> 0],
       [label |-> "CFATA2", start |-> <<49250, 0>>, end |-> <<49250, 65535>>, handle |-> "eos_handle_cfata", parm |-> 2],
       [label |-> "CFATA16", start |-> <<49264, 0>>, end |-> <<49264, 65535>>, handle |-> "eos_handle_cfata", parm |-> 16],
       [label |-> "UART", start |-> <<49280, 0>>, end |-> <<49280, 255>>, handle |-> "eos_handle_uart", parm |-> 0],
       [label |-> "UART", start |-> <<49281, 0>>, end |-> <<49281, 255>>, handle |-> "eos_handle_uart", parm |-> 1],
       [label |-> "UART", start |-> <<49191, 0>>, end |-> <<49191, 15>>, handle |-> "eos_handle_uart", parm |-> 2],
       [label |-> "I2C", start |-> <<49161, 0>>, end |-> <<49161, 255>>, handle |-> "eos_handle_i2c", parm |-> 0],
       [label |-> "SIO0", start |-> <<49282, 0>>, end |-> <<49282, 255>>, handle |-> "eos_handle_sio", parm |-> 0],
       [label |-> "SIO1", start |-> <<49282, 256>>, end |-> <<49282, 511>>, handle |-> "eos_handle_sio", parm |-> 1],
       [label |-> "SIO2", start |-> <<49282, 512>>, end |-> <<49282, 767>>, handle |-> "eos_handle_sio", parm |-> 2],
       [label |-> "SIO3", start |-> <<49282, 768>>, end |-> <<49282, 1023>>, handle |-> "eos_handle_sio3", parm |-> 3],
       [label |-> "SIO4", start |-> <<49282, 1024>>, end |-> <<49282, 1279>>, handle |-> "eos_handle_sio", parm |-> 4],
       [label |-> "SIO6", start |-> <<49282, 1536>>, end |-> <<49282, 1791>>, handle |-> "eos_handle_sio", parm |-> 6],
       [label |-> "SIO7", start |-> <<49282, 1792>>, end |-> <<49282, 2047>>, handle |-> "eos_handle_sio", parm |-> 7],
       [label |-> "SIO8", start |-> <<49282, 2048>>, end |-> <<49282, 2303>>, handle |-> "eos_handle_sio", parm |-> 8],
       [label |-> "SIO9", start |-> <<49282, 2304>>, end |-> <<49282, 2559>>, handle |-> "eos_handle_sio", parm |-> 9],
       [label |-> "SIO10", start |-> <<49282, 2560>>, end |-> <<49282, 2815>>, handle |-> "eos_handle_sio", parm |-> 10],
       [label |-> "ADC", start |-> <<49296, 64>>, end |-> <<49296, 212>>, handle |-> "eos_handle_adc", parm |-> 1],
       [label |-> "MREQ", start |-> <<49184, 12288>>, end |-> <<49184, 12543>>, handle |-> "eos_handle_mreq", parm |-> 0],
       [label |-> "DMA1", start |-> <<49313, 0>>, end |-> <<49313, 255>>, handle |-> "eos_handle_dma", parm |-> 1],
       [label |-> "DMA2", start |-> <<49314, 0>>, end |-> <<49314, 255>>, handle |-> "eos_handle_dma", parm |-> 2],
       [label |-> "DMA3", start |-> <<49315, 0>>, end |-> <<49315, 255>>, handle |-> "eos_handle_dma", parm |-> 3],
       [label |-> "DMA4", start |-> <<49316, 0>>, end |-> <<49316, 255>>, handle |-> "eos_handle_dma", parm |-> 4],
       [label |-> "DMA5", start |-> <<49317, 0>>, end |-> <<49317, 255>>, handle |-> "eos_handle_dma", parm |-> 5],
       [label |-> "DMA6", start |-> <<49318, 0>>, end |-> <<49318, 255>>, handle |-> "eos_handle_dma", parm |-> 6],
       [label |-> "DMA7", start |-> <<49319, 0>>, end |-> <<49319, 255>>, handle |-> "eos_handle_dma", parm |-> 7],
       [label |-> "DMA8", start |-> <<49320, 0>>, end |-> <<49320, 255>>, handle |-> "eos_handle_dma", parm |-> 8],
       [label |-> "CHSW", start |-> <<49392, 20480>>, end |-> <<49392, 24575>>, handle |-> "eos_handle_edmac_chsw", parm |-> 0],
       [label |-> "EDMAC", start |-> <<49392, 16384>>, end |-> <<49392, 20479>>, handle |-> "eos_handle_edmac", parm |-> 0],
       [label |-> "EDMAC", start |-> <<49394, 24576>>, end |-> <<49394, 28671>>, handle |-> "eos_handle_edmac", parm |-> 1],
       [label |-> "EDMAC", start |-> <<49395, 0>>, end |-> <<49395, 4095>>, handle |-> "eos_handle_edmac", parm |-> 2],
       [label |-> "PREPRO", start |-> <<49392, 32768>>, end |-> <<49392, 36863>>, handle |-> "eos_handle_prepro", parm |-> 0],
       [label |-> "HEAD", start |-> <<49392, 28744>>, end |-> <<49392, 28763>>, handle |-> "eos_handle_head", parm |-> 1],
       [label |-> "HEAD", start |-> <<49392, 28764>>, end |-> <<49392, 28783>>, handle |-> "eos_handle_head", parm |-> 2],
       [label |-> "HEAD", start |-> <<49392, 28980>>, end |-> <<49392, 28999>>, handle |-> "eos_handle_head", parm |-> 3],
       [label |-> "HEAD", start |-> <<49392, 29000>>, end |-> <<49392, 29019>>, handle |-> "eos_handle_head", parm |-> 4],
       [label |-> "CARTRIDGE", start |-> <<49394, 16384>>, end |-> <<49394, 20479>>, handle |-> "eos_handle_cartridge", parm |-> 0],
       [label |-> "ASIF", start |-> <<49298, 0>>, end |-> <<49298, 4095>>, handle |-> "eos_handle_asif", parm |-> 4],
       [label |-> "Display", start |-> <<49393, 16384>>, end |-> <<49393, 20479>>, handle |-> "eos_handle_display", parm |-> 0],
       [label |-> "Display", start |-> <<49395, 4096>>, end |-> <<49395, 8191>>, handle |-> "eos_handle_display", parm |-> 1],
       [label |-> "Power", start |-> <<49392, 4096>>, end |-> <<49392, 4351>>, handle |-> "eos_handle_power_control", parm |-> 1],
       [label |-> "ADC", start |-> <<55680, 0>>, end |-> <<55680, 104>>, handle |-> "eos_handle_adc", parm |-> 0],
       [label |-> "JP51", start |-> <<49376, 0>>, end |-> <<49376, 65535>>, handle |-> "eos_handle_jpcore", parm |-> 0],
       [label |-> "JP62", start |-> <<49377, 0>>, end |-> <<49377, 65535>>, handle |-> "eos_handle_jpcore", parm |-> 1],
       [label |-> "JP57", start |-> <<49378, 0>>, end |-> <<49378, 65535>>, handle |-> "eos_handle_jpcore", parm |-> 2],
       [label |-> "EEKO", start |-> <<53292, 8192>>, end |-> <<53292, 9279>>, handle |-> "eos_handle_eeko_comm", parm |-> 0],
       [label |-> "ENGIO", start |-> <<49392, 0>>, end |-> <<49407, 65535>>, handle |-> "eos_handle_engio", parm |-> 0],
       [label |-> "XDMAC", start |-> <<54787, 0>>, end |-> <<54787, 47>>, handle |-> "eos_handle_xdmac", parm |-> 0],
       [label |-> "XDMAC", start |-> <<54787, 48>>, end |-> <<54787, 95>>, handle |-> "eos_handle_xdmac", parm |-> 1],
       [label |-> "XDMAC", start |-> <<54787, 96>>, end |-> <<54787, 143>>, handle |-> "eos_handle_xdmac", parm |-> 2],
       [label |-> "XDMAC", start |-> <<54787, 144>>, end |-> <<54787, 191>>, handle |-> "eos_handle_xdmac", parm |-> 3],
       [label |-> "XDMAC7", start |-> <<51488, 0>>, end |-> <<51488, 63>>, handle |-> "eos_handle_xdmac7", parm |-> 0],
       [label |-> "XDMAC7", start |-> <<51488, 64>>, end |-> <<51488, 127>>, handle |-> "eos_handle_xdmac7", parm |-> 1],
       [label |-> "XDMAC7", start |-> <<51488, 128>>, end |-> <<51488, 191>>, handle |-> "eos_handle_xdmac7", parm |-> 2],
       [label |-> "MEMDIV", start |-> <<55552, 5632>>, end |-> <<55552, 65535>>, handle |-> "eos_handle_memdiv", parm |-> 0],
       [label |-> "ROMID", start |-> <<49120, 8144>>, end |-> <<49120, 8159>>, handle |-> "eos_handle_rom_id", parm |-> 0],
       [label |-> "ROMID", start |-> <<54544, 16>>, end |-> <<54544, 16>>, handle |-> "eos_handle_rom_id", parm |-> 1],
       [label |-> "ROMID", start |-> <<57340, 20400>>, end |-> <<57340, 20415>>, handle |-> "eos_handle_rom_id", parm |-> 2],
       [label |-> "DIGICX", start |-> <<53776, 0>>, end |-> <<53791, 65535>>, handle |-> "eos_handle_digicX", parm |-> 0],
       [label |-> "DIGICX", start |-> <<53793, 0>>, end |-> <<53807, 65535>>, handle |-> "eos_handle_digicX", parm |-> 0],
       [label |-> "DIGICX", start |-> <<53856, 0>>, end |-> <<53871, 65535>>, handle |-> "eos_handle_digicX", parm |-> 1],
       [label |-> "DIGICX", start |-> <<53920, 0>>, end |-> <<53935, 65535>>, handle |-> "eos_handle_digicX", parm |-> 2],
       [label |-> "DIGICX", start |-> <<53952, 0>>, end |-> <<53967, 65535>>, handle |-> "eos_handle_digicX", parm |-> 3],
       [label |-> "DUMMYX", start |-> <<51764, 0>>, end |-> <<51764, 65535>>, handle |-> "eos_handle_dummy_dev_digicX", parm |-> 0],
       [label |-> "DUMMYX", start |-> <<52276, 16>>, end |-> <<52276, 65535>>, handle |-> "eos_handle_dummy_dev_digicX", parm |-> 1],
       [label |-> "DUMMYX", start |-> <<52788, 16>>, end |-> <<52788, 65535>>, handle |-> "eos_handle_dummy_dev_digicX", parm |-> 2],
       [label |-> "DUMMYX", start |-> <<53300, 16>>, end |-> <<53300, 65535>>, handle |-> "eos_handle_dummy_dev_digicX", parm |-> 3],
       [label |-> "DIGIC6", start |-> <<53248, 0>>, end |-> <<57343, 65535>>, handle |-> "eos_handle_digic6", parm |-> 0],
       [label |-> "DIGIC6", start |-> <<51216, 0>>, end |-> <<51216, 4095>>, handle |-> "eos_handle_digic6", parm |-> 1],
       [label |-> "BOOT8", start |-> <<49120, 8132>>, end |-> <<49120, 8143>>, handle |-> "eos_handle_boot_digic8", parm |-> 0],
       [label |-> "BOOTX", start |-> <<57340, 20384>>, end |-> <<57340, 20399>>, handle |-> "eos_handle_boot_digicX", parm |-> 0],
       [label |-> "BOOTX", start |-> <<57340, 0>>, end |-> <<57340, 18687>>, handle |-> "eos_handle_boot_digicX", parm |-> 0],
       [label |-> "ML helpers", start |-> <<53010, 12288>>, end |-> <<53010, 12543>>, handle |-> "eos_handle_ml_helpers", parm |-> 0],
       [label |-> "ML helpers", start |-> <<49170, 13312>>, end |-> <<49170, 13567>>, handle |-> "eos_handle_ml_helpers", parm |-> 1]
    >>

\* a <= b on uint32_t
W32Le(a, b) == ~W32Gt(a, b)

\* eos_handlers[pos].start <= address && eos_handlers[pos].end >= address
handler_contains(pos, address) ==
    W32Le(eos_handlers[pos].start, address) /\ W32Le(address, eos_handlers[pos].end)

\* the scan returning the last entry that contains the address
eos_find_last(address) ==
    LET hits == {pos \in 1 .. Len(eos_handlers) : handler_contains(pos, address)}
    IN  IF hits = {} THEN 0 ELSE CHOOSE pos \in hits : \A q \in hits : q <= pos

\* for (pos = 0; pos < COUNT(eos_handlers); pos++) if (...) return &eos_handlers[pos];
\* the loop is run in consecutive blocks of 16 entries to bound the evaluation depth
RECURSIVE eos_find_block(_, _, _)
eos_find_block(address, pos, last) ==
    IF pos > last THEN 0
    ELSE IF handler_contains(pos, address) THEN pos
    ELSE eos_find_block(address, pos + 1, last)

RECURSIVE eos_find_from(_, _)
eos_find_from(address, pos) ==
    IF pos > Len(eos_handlers) THEN 0                       \* return NULL
    ELSE LET last == IF pos + 15 > Len(eos_handlers) THEN Len(eos_handlers) ELSE pos + 15
             hit  == eos_find_block(address, pos, last)
         IN  IF hit # 0 THEN hit ELSE eos_find_from(address, pos + 16)

(* eos_find_handler: the index (from 1) of the entry returned, 0 for NULL *)
eos_find_handler(address) == eos_find_from(address, 1)

\* the copy loop moving blocksize bytes in the last block too
RECURSIVE dma_copy_full_blocks(_, _, _, _, _)
dma_copy_full_blocks(ram, src, dst, remain, blocksize) ==
    IF remain <= 0 THEN ram
    ELSE dma_copy_full_blocks(mem_copy(ram, src, dst, blocksize),
                              src + blocksize, dst + blocksize, remain - blocksize, blocksize)

\* while (remain) { transfer = (remain > blocksize) ? blocksize : remain; ... }
RECURSIVE dma_copy(_, _, _, _, _)
dma_copy(ram, src, dst, remain, blocksize) ==
    IF remain = 0 THEN ram
    ELSE LET transfer == IF remain > blocksize THEN blocksize ELSE remain
         IN  dma_copy(mem_copy(ram, src, dst, transfer),
                      src + transfer, dst + transfer, remain - transfer, blocksize)

\* unsigned int interruptId[] = {0x00, 0x2f, 0x74, 0x75, 0x76, 0xA0, 0xA1, 0xA8, 0xA9}
dma_interruptId == <<0, 47, 116, 117, 118, 160, 161, 168, 169>>

\* the start branch calling eos_trigger_int(interruptId[parm], count) without the division
dma_latency_none(count) == 0

\* count / 10000
dma_latency(count) == count \div 10000

(* eos_handle_dma *)
eos_handle_dma(st, parm, address, type, value) ==
    LET reg == address[2] % 256
    IN  IF reg = 8
        THEN IF type = MODE_WRITE /\ value[2] % 2 = 1
             THEN LET s1 == [st EXCEPT !.ram = dma_copy(st.ram, W32Int(st.dma_srcAddr),
                                                        W32Int(st.dma_dstAddr),
                                                        W32Int(st.dma_count), 8192)]
                      r  == Ret(eos_trigger_int(s1, dma_interruptId[parm + 1],
                                                dma_latency(W32Int(st.dma_count))), W32(0))
                  IN  IF ~qemu_loglevel_mask(st, "EOS_LOG_VERBOSE")
                      THEN r                               \* quiet
                      ELSE Logged("DMA", r)
             ELSE Logged("DMA", Ret(st, W32(0)))
        ELSE IF reg = 24
        THEN IF type = MODE_WRITE THEN Logged("DMA", Ret([st EXCEPT !.dma_srcAddr = value], W32(0)))
                                  ELSE Logged("DMA", Ret(st, st.dma_srcAddr))
        ELSE IF reg = 28
        THEN IF type = MODE_WRITE THEN Logged("DMA", Ret([st EXCEPT !.dma_dstAddr = value], W32(0)))
                                  ELSE Logged("DMA", Ret(st, st.dma_dstAddr))
        ELSE IF reg = 32
        THEN IF type = MODE_WRITE THEN Logged("DMA", Ret([st EXCEPT !.dma_count = value], W32(0)))
                                  ELSE Logged("DMA", Ret(st, st.dma_count))
        ELSE Logged("DMA", Ret(st, W32(0)))

\* the clock read that takes its quiet return before it reads the clock
eos_handle_digic_timer_quiet_first(st, parm, address, type, value) ==
    IF type = MODE_WRITE
    THEN Logged("TIMER", Ret(st, W32(0)))
    ELSE IF quiet(st)
    THEN Ret(st, W32(0))
    ELSE IF parm # 0
         THEN Logged("TIMER", Ret([st EXCEPT !.digic_timer32_last_read = st.digic_timer32],
                                  st.digic_timer32))
         ELSE Logged("TIMER", Ret([st EXCEPT !.digic_timer20_last_read = st.digic_timer20],
                                  W32(st.digic_timer20)))

(* eos_handle_digic_timer: parm selects the wide clock *)
eos_handle_digic_timer(st, parm, address, type, value) ==
    IF type = MODE_WRITE
    THEN Logged("TIMER", Ret(st, W32(0)))
    ELSE LET r == IF parm # 0
                  THEN Ret([st EXCEPT !.digic_timer32_last_read = st.digic_timer32],
                           st.digic_timer32)
                  ELSE Ret([st EXCEPT !.digic_timer20_last_read = st.digic_timer20],
                           W32(st.digic_timer20))
         IN  IF quiet(st) THEN r                           \* be quiet
                          ELSE Logged("TIMER", r)

\* dma_wait = (use_icount) ? value / 512 * 2 + 10 : 0
cfdma_wait(st, value) ==
    IF st.use_icount THEN (W32Int(value) \div 512) * 2 + 10 ELSE 0

(* eos_handle_cfdma (the model is not the A1100) *)
eos_handle_cfdma(st, parm, address, type, value) ==
    LET reg == address[2] % 32
    IN  IF reg = 0
        THEN IF type = MODE_WRITE THEN Ret([st EXCEPT !.cf.dma_addr = value], W32(0))
                                  ELSE Ret(st, st.cf.dma_addr)
        ELSE IF reg = 4
        THEN IF type = MODE_WRITE
             THEN Ret([st EXCEPT !.cf.dma_count = value,
                                 !.cf.dma_wait = cfdma_wait(st, value)], W32(0))
             ELSE Ret(st, W32(st.cf.dma_read))
        ELSE IF reg = 16
        THEN IF type = MODE_WRITE /\ value \in {W32(61), W32(45)}            \* 0x3D, 0x2D
             THEN Ret([st EXCEPT !.cf.dma_written = 0, !.cf.dma_write_request = 1], W32(0))
             ELSE IF type = MODE_WRITE /\ value \in {W32(57), W32(41), W32(33)}   \* 0x39, 0x29, 0x21
             THEN Ret([st EXCEPT !.cf.dma_read = 0, !.cf.dma_read_request = 1], W32(0))
             ELSE Ret(st, W32(0))
        ELSE IF reg = 20
        THEN Ret(st, W32(3))
        ELSE Ret(st, W32(0))

(* eos_handle_cfata: the registers kept in CFState; the ATA ports themselves belong *)
(* to the IDE bus and leave this state alone, except for the interrupt request of a *)
(* command written to port 7                                                        *)
eos_handle_cfata(st, parm, address, type, value) ==
    LET reg == address[2]
    IN  IF reg = 33028                                                       \* 0x8104
        THEN Ret(st, W32(IF st.cf.dma_read_request # 0 \/ st.cf.dma_write_request # 0
                         THEN 0 ELSE 4))
        ELSE IF reg = 32832                                                  \* 0x8040
        THEN IF type = MODE_WRITE THEN Ret([st EXCEPT !.cf.interrupt_enabled = value], W32(0))
                                  ELSE Ret(st, st.cf.interrupt_enabled)
        ELSE IF reg = 32836                                                  \* 0x8044
        THEN IF type = MODE_WRITE THEN Ret(st, W32(0))
                                  ELSE Ret(st, st.cf.interrupt_enabled)
        ELSE IF reg = 32840                                                  \* 0x8048
        THEN IF type = MODE_WRITE
             THEN LET en == st.cf.interrupt_enabled
                      hi == en[1] - (en[1] % 2) + (IF value[2] % 2 = 1 THEN 1 ELSE 0)
                  IN  Ret([st EXCEPT !.cf.interrupt_enabled = <<hi, en[2]>>], W32(0))
             ELSE Ret(st, W32(0))
        ELSE IF reg \in {8695, 8199}                                         \* 0x21F7, 0x2007
        THEN IF type = MODE_WRITE /\ st.cf.ata_interrupt_enabled # 0
             THEN Ret([st EXCEPT !.cf.pending_interrupt = 1], W32(0))
             ELSE Ret(st, W32(0))
        ELSE IF reg \in {9206, 8206}                                         \* 0x23F6, 0x200E
        THEN IF type = MODE_WRITE
             THEN Ret([st EXCEPT !.cf.ata_interrupt_enabled =
                                     IF (value[2] \div 2) % 2 = 1 THEN 0 ELSE 1], W32(0))
             ELSE Ret(st, W32(0))
        ELSE Ret(st, W32(0))

----------------------------------------------------------------------------
(* The default handler and the dispatch entry point *)

\* the word at address: the word last written there by a handler, else the initial
\* content, named by its address
mem_word(st, address) ==
    IF \E w \in st.stored : w.addr = address
    THEN (CHOOSE w \in st.stored : w.addr = address).value
    ELSE address

\* cpu_physical_memory_write(address, &value, 4)
mem_store(st, address, value) ==
    [st EXCEPT !.stored = {w \in st.stored : w.addr # address}
                              \cup {[addr |-> address, value |-> value]}]

\* ~data on uint32_t
W32Not(v) == <<65535 - v[1], 65535 - v[2]>>

\* (address & 0xF0000000) is 0, 0xF0000000 or 0x40000000: ram or flash, not logged
ram_or_flash(address) == (address[1] \div 4096) \in {0, 4, 15}

(* eos_default_handle *)
eos_default_handle(st, address, type, value) ==
    LET s1   == IF type = MODE_WRITE THEN mem_store(st, address, value) ELSE st
        data == IF type = MODE_WRITE THEN W32(0) ELSE mem_word(st, address)
        mod  == (st.default_mod + 1) % 2
    IN  IF ram_or_flash(address) \/ type = MODE_WRITE
        THEN Ret(s1, data)
        ELSE Ret([s1 EXCEPT !.default_mod = mod], IF mod # 0 THEN W32Not(data) ELSE data)

\* the register handlers of the table that are modelled
HandlersModelled ==
    { "eos_handle_intengine", "eos_handle_intengine_vx", "eos_handle_timers",
      "eos_handle_utimer", "eos_handle_hptimer", "eos_handle_dma", "eos_handle_digic_timer",
      "eos_handle_cfdma", "eos_handle_cfata" }

\* handler->handle(handler->parm, address, type, value)
handler_call(st, pos, address, type, value) ==
    LET handle == eos_handlers[pos].handle
        parm   == eos_handlers[pos].parm
    IN  CASE handle = "eos_handle_intengine"    -> eos_handle_intengine(st, address, type, value)
          [] handle = "eos_handle_intengine_vx" -> eos_handle_intengine_vx(st, address, type, value)
          [] handle = "eos_handle_timers"       -> eos_handle_timers(st, parm, address, type, value)
          [] handle = "eos_handle_utimer"       -> eos_handle_utimer(st, address, type, value)
          [] handle = "eos_handle_hptimer"      -> eos_handle_hptimer(st, address, type, value)
          [] handle = "eos_handle_dma"          -> eos_handle_dma(st, parm, address, type, value)
          [] handle = "eos_handle_digic_timer"  -> eos_handle_digic_timer(st, parm, address, type, value)
          [] handle = "eos_handle_cfdma"        -> eos_handle_cfdma(st, parm, address, type, value)
          [] handle = "eos_handle_cfata"        -> eos_handle_cfata(st, parm, address, type, value)

\* the entry point stopping on an address that no range contains
eos_handler_fatal(st, address, type, value) ==
    LET pos == eos_find_handler(address)
    IN  IF pos # 0
        THEN handler_call(st, pos, address, type, value)
        ELSE Ret([st EXCEPT !.aborted = TRUE], W32(0))

\* the entry point handing an address that no range contains to eos_default_handle
eos_handler_default(st, address, type, value) ==
    LET pos == eos_find_handler(address)
    IN  IF pos # 0
        THEN handler_call(st, pos, address, type, value)
        ELSE eos_default_handle(st, address, type, value)

(* eos_handler: io_log("*unk*", ...) writes a log line and returns *)
eos_handler(st, address, type, value) ==
    LET pos == eos_find_handler(address)
    IN  IF pos # 0
        THEN handler_call(st, pos, address, type, value)
        ELSE Ret(io_log(st, "*unk*"), W32(0))

----------------------------------------------------------------------------
(* Observers.                                                               *)
(* op     the last operation: its name, arguments and returned value.       *)
(* track  the most recent eos_trigger_int(id, delay) call of a register     *)
(*        handler that was deferred: kind "armed" (id enabled at the call,  *)
(*        delay >= 1) or "masked" (id disabled at the call), the requested  *)
(*        delay d and the number n of timer bodies run since; the kind     *)
(*        becomes "armed_fired" / "masked_fired" once id was activated,     *)
(*        with n the tick of the activation; "off" when the specification   *)
(*        does not observe deliveries.  In the countdown specification the  *)
(*        kind is "count": countdown slot id was started from 0 and n timer *)
(*        bodies ran since, with no stop and no reload write in between.    *)
(*        In the output-compare specification the kind is "snap_hp" or      *)
(*        "snap_ut": the last compare write to HPTimer / UTimer slot id had *)
(*        its target behind the clock and no timer body ran since.          *)
(* flight "open" from an immediate activation by a handler's trigger call   *)
(*        until the reason register is read; "reset" if the reset-IRQ       *)
(*        register was written in between.                                  *)

Op(name, a, b, ret) == [name |-> name, a |-> a, b |-> b, ret |-> ret]

\* no register access and no callback is under way and the lock is free
NoThreads ==
    [ lock |-> "free", cpu |-> "idle", acc |-> 0, val |-> 0, timer |-> 0,
      cpu_start |-> InitState, timer_start |-> InitState ]

NoTrack == [kind |-> "none", id |-> 0, d |-> 0, n |-> 0]

OffTrack == [kind |-> "off", id |-> 0, d |-> 0, n |-> 0]

\* an interrupt is active, or a higher id is activated first, when id is scanned
Blocked(st, id) ==
    \/ st.irq_id # 0
    \/ \E h \in IntIds : h > id /\ st.irq_schedule[h] = 1 /\ st.irq_enabled[h]

\* id was not active before the step and is active after it
Activated(pre, post, id) == pre.irq_id # id /\ post.irq_id = id

\* requests of one id: "requested" after a trigger call that did not activate it,
\* "left" after a trigger call that activated it at once while an older request was
\* still scheduled, "served" otherwise; n = 1 when the last activation by a tick found
\* "left", d = 1 when it found "served"
ServedTrack(id) == [kind |-> "served", id |-> id, d |-> 0, n |-> 0]

TrackRequest(pre, post, id) ==
    IF id # track.id THEN track
    ELSE IF ~Activated(pre, post, id) THEN [track EXCEPT !.kind = "requested"]
    ELSE IF pre.irq_schedule[id] >= 1 THEN [track EXCEPT !.kind = "left"]
    ELSE [track EXCEPT !.kind = "served"]

TrackServed(pre, post) ==
    IF ~Activated(pre, post, track.id) THEN track
    ELSE [kind |-> "served", id |-> track.id,
          d |-> IF track.kind = "served" THEN 1 ELSE 0,
          n |-> IF track.kind = "left" THEN 1 ELSE 0]

TrackTrigger(pre, post, id, delay) ==
    IF track.kind \in {"served", "requested", "left"} THEN TrackRequest(pre, post, id)
    ELSE IF track.kind = "off" \/ id = 0 THEN track
    ELSE IF Activated(pre, post, id)
    THEN (IF track.id = id THEN NoTrack ELSE track)
    ELSE IF ~pre.irq_enabled[id]
    THEN [kind |-> "masked", id |-> id, d |-> delay, n |-> 0]
    ELSE IF delay >= 1
    THEN [kind |-> "armed", id |-> id, d |-> delay, n |-> 0]
    ELSE (IF track.id = id THEN NoTrack ELSE track)

\* the periodic id: d is the period taken from the reload value when the callback
\* activated it, n the ticks since then in which nothing held it back
PeriodIdle == [kind |-> "period_idle", id |-> TIMER_INTERRUPT, d |-> 0, n |-> 0]

TrackPeriod(pre, post) ==
    IF pre.cpu_stopped THEN track
    ELSE IF Activated(pre, post, TIMER_INTERRUPT)
    THEN [kind |-> "period", id |-> TIMER_INTERRUPT,
          d |-> W32Shr8(pre.timer_reload_value[DRYOS_TIMER_ID]), n |-> 0]
    ELSE IF track.kind = "period" /\ pre.irq_enabled[TIMER_INTERRUPT] /\ pre.irq_id = 0
    THEN [track EXCEPT !.n = track.n + 1]
    ELSE PeriodIdle

\* the rounded target of a compare value written as clock + d is the clock itself
OnClock(d) == (d + DIGIC_TIMER_STEP) \div DIGIC_TIMER_STEP = 0

\* the observer of a compare value whose rounded target is the clock, until the
\* next tick that runs
EqualIdle == [kind |-> "equal_idle", id |-> 0, d |-> 0, n |-> 0]

\* the observer of a compare value written ahead of the clock: d ticks are due,
\* n of them have run
FireIdle == [kind |-> "fire_idle", id |-> 0, d |-> 0, n |-> 0]

TrackFire(pre) ==
    IF pre.cpu_stopped \/ track.kind = "fire_idle" THEN track
    ELSE IF track.n + 1 >= track.d THEN FireIdle
    ELSE [track EXCEPT !.n = track.n + 1]

\* the observer of the last start of the system timer made with its interrupt
\* enabled: the delay given to eos_trigger_int is d, n ticks have run since
StartIdle == [kind |-> "start_idle", id |-> 0, d |-> 0, n |-> 0]

TrackStart(pre, slot, reg, value) ==
    IF slot = DRYOS_TIMER_ID /\ reg = 0 /\ value % 2 = 1
    THEN IF pre.irq_enabled[TIMER_INTERRUPT]
         THEN [kind |-> "start", id |-> slot,
               d |-> W32Shr8(pre.timer_reload_value[slot]), n |-> 0]
         ELSE StartIdle
    ELSE track

TrackTick(pre, post) ==
    IF track.kind \in {"served", "requested", "left"} THEN TrackServed(pre, post)
    ELSE IF track.kind \in {"period", "period_idle"} THEN TrackPeriod(pre, post)
    ELSE IF track.kind \in {"start_idle", "start"}
    THEN IF pre.cpu_stopped \/ track.kind = "start_idle" THEN track
         ELSE IF track.n + 1 >= track.d THEN StartIdle
         ELSE [track EXCEPT !.n = track.n + 1]
    ELSE IF track.kind \in {"fire_idle", "fire_hp", "fire_ut"} THEN TrackFire(pre)
    ELSE IF track.kind \in {"equal_idle", "equal_hp", "equal_ut"}
    THEN IF pre.cpu_stopped THEN track ELSE EqualIdle
    ELSE IF ~pre.cpu_stopped /\ track.kind \in {"snap_hp", "snap_ut"} THEN NoTrack
    ELSE IF pre.cpu_stopped \/ track.kind \notin {"armed", "masked", "count"} THEN track
    ELSE IF track.kind = "count" THEN [track EXCEPT !.n = track.n + 1]
    ELSE IF Activated(pre, post, track.id)
    THEN [track EXCEPT !.kind = IF track.kind = "armed" THEN "armed_fired" ELSE "masked_fired",
                       !.n = track.n + 1]
    ELSE IF track.kind = "armed" /\ track.n + 1 >= track.d
    THEN NoTrack                                   \* blocked in the tick it was due
    ELSE [track EXCEPT !.n = track.n + 1]

\* a register access that is no trigger call: an armed id that got masked is dropped
TrackWrite(post) ==
    IF track.kind = "armed" /\ ~post.irq_enabled[track.id] THEN NoTrack ELSE track

\* a write to register reg of countdown slot: 0x00 is start / stop, 0x08 the reload value
TrackTimers(pre, slot, reg, value) ==
    IF track.kind \in {"period", "period_idle"} THEN PeriodIdle
    ELSE IF reg = 0 /\ value % 2 = 1
    THEN IF track.kind = "count" /\ track.id = slot THEN track
         ELSE IF ~pre.timer_enabled[slot]
         THEN [kind |-> "count", id |-> slot, d |-> 0, n |-> 0]
         ELSE NoTrack
    ELSE IF track.id = slot THEN NoTrack ELSE track

----------------------------------------------------------------------------
(* Operations *)

\* 0xC0210000 + 0x100 * slot + reg : the registers of one countdown timer slot
TimerAddr(slot, reg) == <<49185, 256 * slot + reg>>

\* write to the start/stop (0x00) or reload (0x08) register of a countdown timer
TimersWrite ==
    \E slot \in scope.timer_slots, reg \in {0, 8} :
        \E value \in IF reg = 0 THEN {0, 1} ELSE scope.reloads :
            LET r == eos_handle_timers(eos_state, 0, TimerAddr(slot, reg), MODE_WRITE, W32(value))
            IN  /\ ~eos_state.aborted
                /\ eos_state' = r.st
                /\ op' = Op("timers_write", slot, reg, r.ret)
                /\ track' = TrackTimers(eos_state, slot, reg, value)
                /\ UNCHANGED <<ticks, flight, scope, threads>>

\* 0xC0243000 + 16 * slot + reg : the registers of one HPTimer slot
HPTimerAddr(slot, reg) == <<49188, 12288 + 16 * slot + reg>>

\* a leaf register handler calls eos_trigger_int(id, delay)
Trigger ==
    \E id \in scope.ids : \E delay \in 0 .. scope.delays[id] :
        LET post == eos_trigger_int(eos_state, id, delay)
        IN  /\ ~eos_state.aborted
            /\ eos_state' = post
            /\ op' = Op("trigger", id, delay, W32(0))
            /\ track' = TrackTrigger(eos_state, post, id, delay)
            /\ flight' = IF Activated(eos_state, post, id) THEN "open" ELSE flight
            /\ UNCHANGED <<ticks, scope, threads>>

\* write of an interrupt number to the enable register
EnableWrite ==
    \E address \in scope.enable_addrs, id \in scope.enable_ids :
        LET r == eos_handle_intengine(eos_state, address, MODE_WRITE, W32(id))
        IN  /\ ~eos_state.aborted
            /\ eos_state' = r.st
            /\ op' = Op("enable", address[2], id, r.ret)
            /\ track' = TrackWrite(r.st)
            /\ UNCHANGED <<ticks, flight, scope, threads>>

\* read of the interrupt reason register
ReasonRead ==
    \E address \in scope.reason_addrs :
        LET r == eos_handle_intengine(eos_state, address, MODE_READ, W32(0))
        IN  /\ ~eos_state.aborted
            /\ eos_state' = r.st
            /\ op' = Op("reason_read", address[2], 0, r.ret)
            /\ track' = TrackWrite(r.st)
            /\ flight' = "none"
            /\ UNCHANGED <<ticks, scope, threads>>

\* write to the reset-IRQ register
ResetWrite ==
    \E address \in scope.reset_addrs, value \in {0, 1} :
        LET r == eos_handle_intengine(eos_state, address, MODE_WRITE, W32(value))
        IN  /\ ~eos_state.aborted
            /\ eos_state' = r.st
            /\ op' = Op("reset_write", address[2], value, r.ret)
            /\ track' = TrackWrite(r.st)
            /\ flight' = IF value # 0 /\ flight = "open" THEN "reset" ELSE flight
            /\ UNCHANGED <<ticks, scope, threads>>

\* write to the compare (0x104) or active (0x200) register of an HPTimer slot
HPTimerWrite ==
    \E slot \in scope.hp_slots, reg \in {260, 512}, value \in {0, 1} :
        LET r == eos_handle_hptimer(eos_state, HPTimerAddr(slot, reg), MODE_WRITE, W32(value))
        IN  /\ ~eos_state.aborted
            /\ eos_state' = r.st
            /\ op' = Op("hptimer_write", slot, reg, r.ret)
            /\ UNCHANGED <<ticks, track, flight, scope, threads>>

\* eos_interrupt_timer_cb: the body, then the timer is re-armed
Tick ==
    LET post == eos_interrupt_timer_cb(eos_state)
    IN  /\ ~eos_state.aborted
        /\ eos_state.interrupt_timer
        /\ ticks < scope.max_ticks
        /\ eos_state' = post
        /\ op' = Op("tick", IF eos_state.cpu_stopped THEN 0 ELSE 1, 0, W32(0))
        /\ ticks' = ticks + 1
        /\ track' = TrackTick(eos_state, post)
        /\ UNCHANGED <<flight, scope, threads>>

\* write of an interrupt bit to the enable (0x8) or reset (0xC) register of the
\* older controller interface at 0xC0200000
VxWrite ==
    \E reg \in scope.vx_regs, id \in scope.enable_ids :
        LET r == eos_handle_intengine_vx(eos_state, <<49184, reg>>, MODE_WRITE, W32(2 ^ id))
        IN  /\ ~eos_state.aborted
            /\ eos_state' = r.st
            /\ op' = Op("vx_write", reg, id, r.ret)
            /\ track' = TrackWrite(r.st)
            /\ UNCHANGED <<ticks, flight, scope, threads>>

\* the debugger stops or resumes the CPU (cpu_is_stopped)
GdbStop ==
    /\ ~eos_state.aborted /\ ~eos_state.cpu_stopped
    /\ eos_state' = [eos_state EXCEPT !.cpu_stopped = TRUE]
    /\ op' = Op("gdb_stop", 0, 0, W32(0))
    /\ UNCHANGED <<ticks, track, flight, scope, threads>>

GdbCont ==
    /\ ~eos_state.aborted /\ eos_state.cpu_stopped
    /\ eos_state' = [eos_state EXCEPT !.cpu_stopped = FALSE]
    /\ op' = Op("gdb_cont", 0, 0, W32(0))
    /\ UNCHANGED <<ticks, track, flight, scope, threads>>

\* a + d on uint32_t for a signed offset d
W32Off(a, d) == IF d >= 0 THEN W32Add(a, d) ELSE W32Sub(a, W32(-d))

\* 0xD4000240 + 0x40 * slot + reg : the registers of one UTimer slot
UTimerAddr(slot, reg) == <<54272, 576 + 64 * slot + reg>>

\* the rounded target of a compare value written as clock + d lies behind the clock
Behind(d) == (d + DIGIC_TIMER_STEP) \div DIGIC_TIMER_STEP < 0

\* a compare write arms the observer when its target is behind the clock
TrackCompare(kind, slot, d) ==
    IF track.kind \in {"equal_idle", "equal_hp", "equal_ut"}
    THEN IF OnClock(d) /\ (IF kind = "snap_hp" THEN eos_state.HPTimers[slot].triggered
                                                ELSE eos_state.UTimers[slot].triggered) = W32(0)
         THEN [kind |-> IF kind = "snap_hp" THEN "equal_hp" ELSE "equal_ut", id |-> slot,
               d |-> d, n |-> 0]
         ELSE EqualIdle
    ELSE IF track.kind \in {"fire_idle", "fire_hp", "fire_ut"}
    THEN IF d >= 0 /\ (IF kind = "snap_hp" THEN eos_state.HPTimers[slot].triggered
                                            ELSE eos_state.UTimers[slot].triggered) = W32(0)
         THEN [kind |-> IF kind = "snap_hp" THEN "fire_hp" ELSE "fire_ut", id |-> slot,
               d |-> d \div DIGIC_TIMER_STEP + 1, n |-> 0]
         ELSE FireIdle
    ELSE IF Behind(d) THEN [kind |-> kind, id |-> slot, d |-> d, n |-> 0]
    ELSE IF track.kind = kind /\ track.id = slot THEN NoTrack
    ELSE track

\* write of the value digic_timer20 + d to the output compare register (0x104) of an HPTimer
HPCompareWrite ==
    \E slot \in scope.hp_slots, d \in scope.offsets :
        LET value == W32Off(eos_state.digic_timer32, d)
            r     == eos_handle_hptimer(eos_state, HPTimerAddr(slot, 260), MODE_WRITE, value)
        IN  /\ ~eos_state.aborted
            /\ eos_state' = r.st
            /\ op' = Op("hp_compare", slot, d, r.ret)
            /\ track' = TrackCompare("snap_hp", slot, d)
            /\ UNCHANGED <<ticks, flight, scope, threads>>

\* write of the value digic_timer32 + d to the output compare register (0x08) of a UTimer
UTCompareWrite ==
    \E slot \in scope.ut_slots, d \in scope.offsets :
        LET value == W32Off(eos_state.digic_timer32, d)
            r     == eos_handle_utimer(eos_state, UTimerAddr(slot, 8), MODE_WRITE, value)
        IN  /\ ~eos_state.aborted
            /\ eos_state' = r.st
            /\ op' = Op("ut_compare", slot, d, r.ret)
            /\ track' = TrackCompare("snap_ut", slot, d)
            /\ UNCHANGED <<ticks, flight, scope, threads>>

\* write to the active register of an HPTimer (0x200) or of a UTimer (0x00)
ActiveWrite ==
    \E value \in {0, 1} :
        \/ \E slot \in scope.hp_slots :
              LET r == eos_handle_hptimer(eos_state, HPTimerAddr(slot, 512), MODE_WRITE, W32(value))
              IN  /\ ~eos_state.aborted
                  /\ eos_state' = r.st
                  /\ op' = Op("hp_active", slot, value, r.ret)
                  /\ UNCHANGED <<ticks, track, flight, scope, threads>>
        \/ \E slot \in scope.ut_slots :
              LET r == eos_handle_utimer(eos_state, UTimerAddr(slot, 0), MODE_WRITE, W32(value))
              IN  /\ ~eos_state.aborted
                  /\ eos_state' = r.st
                  /\ op' = Op("ut_active", slot, value, r.ret)
                  /\ UNCHANGED <<ticks, track, flight, scope, threads>>

\* 0xC0A10000 + reg : the registers of DMA channel 1
DmaAddr(reg) == <<49313, reg>>

\* write to the srcAddr (0x18), dstAddr (0x1C), count (0x20) or control (0x08)
\* register of DMA channel 1; bit 0 of the control value starts the transfer
DmaWrite ==
    \E reg \in {8, 24, 28, 32} :
        \E value \in scope.dma_values[reg] :
            LET r     == eos_handle_dma(eos_state, 1, DmaAddr(reg), MODE_WRITE, W32(value))
                start == reg = 8 /\ value % 2 = 1
            IN  /\ ~eos_state.aborted
                /\ start => Len(eos_state.ram) < MaxRamBlocks
                /\ eos_state' = r.st
                /\ op' = Op("dma_write", reg, value, r.ret)
                /\ track' = IF start
                            THEN TrackTrigger(eos_state, r.st, dma_interruptId[2],
                                              W32Int(eos_state.dma_count) \div 10000)
                            ELSE track
                /\ UNCHANGED <<ticks, flight, scope, threads>>

\* a write to a register of the CF DMA engine (0xC0500000 + reg) or of the CF ATA
\* interface (0xC0600000 + reg)
CfWrite ==
    \E w \in scope.cf_writes :
        LET r == IF w.dev = "cfdma"
                 THEN eos_handle_cfdma(eos_state, 15, <<49232, w.reg>>, MODE_WRITE, W32(w.value))
                 ELSE eos_handle_cfata(eos_state, 0, <<49248, w.reg>>, MODE_WRITE, W32(w.value))
        IN  /\ ~eos_state.aborted
            /\ (w.reg = 16 /\ w.value = 57) => Len(eos_state.ram) < MaxRamBlocks
            /\ eos_state' = r.st
            /\ op' = Op("cf_write", w.reg, w.value, r.ret)
            /\ UNCHANGED <<ticks, track, flight, scope, threads>>

\* eos_interrupt_timer_cb while the card reports DRQ_STAT for ready words
CfTick ==
    \E ready \in scope.cf_ready :
        LET post == eos_interrupt_timer_cb([eos_state EXCEPT !.cf.drq = ready])
        IN  /\ ~eos_state.aborted
            /\ eos_state.interrupt_timer
            /\ ticks < scope.max_ticks
            /\ eos_state' = post
            /\ op' = Op("tick", IF eos_state.cpu_stopped THEN 0 ELSE 1, ready, W32(0))
            /\ ticks' = ticks + 1
            /\ track' = TrackTick(eos_state, post)
            /\ UNCHANGED <<flight, scope, threads>>

\* the address reaches a modelled handler or no handler
IoModelled(address) ==
    LET pos == eos_find_handler(address)
    IN  IF pos = 0 THEN TRUE ELSE eos_handlers[pos].handle \in HandlersModelled

\* eos_io_read: addr += MMIO_ADDR; return eos_handler(addr, MODE_READ, 0)
\* (scope.io_addrs holds the sums)
IoRead ==
    \E i \in scope.io_reads :
        LET address == scope.io_addrs[i]
            r == eos_handler(eos_state, address, MODE_READ, W32(0))
        IN  /\ ~eos_state.aborted
            /\ IoModelled(address)
            /\ eos_state' = r.st
            /\ op' = Op("io_read", i, 0, r.ret)
            /\ UNCHANGED <<ticks, track, flight, scope, threads>>

\* eos_io_write: addr += MMIO_ADDR; eos_handler(addr, MODE_WRITE, val)
IoWrite ==
    \E i \in DOMAIN scope.io_addrs : \E value \in scope.io_values[i] :
        LET address == scope.io_addrs[i]
            r == eos_handler(eos_state, address, MODE_WRITE, W32(value))
        IN  /\ ~eos_state.aborted
            /\ IoModelled(address)
            /\ eos_state' = r.st
            /\ op' = Op("io_write", i, value, W32(0))
            /\ UNCHANGED <<ticks, track, flight, scope, threads>>

\* the single lock that serialises the CPU thread and the timer thread
lock_free(th) == th.lock = "free"

lock_take(th, who) == [th EXCEPT !.lock = who]

lock_release(th) == [th EXCEPT !.lock = "free"]

\* usleep(250) that gives the lock up while it sleeps
trigger_usleep_unlocked(th) == lock_release(th)

\* usleep(250) in eos_trigger_int: the thread sleeps and keeps what it holds
trigger_usleep(th) == th

\* the access is the start write of the system timer, whose handler calls
\* eos_trigger_int before it sets timer_enabled
StartsSystemTimer(address, value) ==
    LET pos == eos_find_handler(address)
    IN  IF pos = 0 THEN FALSE
        ELSE /\ eos_handlers[pos].handle = "eos_handle_timers"
             /\ timers_id(eos_handlers[pos].parm, address) = DRYOS_TIMER_ID
             /\ address[2] % 32 = 0
             /\ value % 2 = 1

\* the CPU thread enters eos_io_read (type MODE_READ) or eos_io_write under the lock
CpuBegin ==
    \E i \in DOMAIN scope.io_addrs, type \in {MODE_READ, MODE_WRITE} :
        \E value \in IF type = MODE_READ THEN (IF i \in scope.io_reads THEN {0} ELSE {})
                     ELSE scope.io_values[i] :
            /\ ~eos_state.aborted
            /\ threads.cpu = "idle"
            /\ lock_free(threads)
            /\ IoModelled(scope.io_addrs[i])
            /\ threads' = [lock_take(threads, "cpu") EXCEPT
                               !.cpu = IF type = MODE_READ THEN "read" ELSE "write",
                               !.acc = i, !.val = value, !.cpu_start = eos_state]
            /\ UNCHANGED <<eos_state, op, ticks, track, flight, scope>>

\* eos_handler: the lookup, then the handler; the start write of the system timer
\* first reaches the usleep of eos_trigger_int
CpuHandler ==
    LET address == scope.io_addrs[threads.acc]
        type    == IF threads.cpu = "read" THEN MODE_READ ELSE MODE_WRITE
        r       == eos_handler(eos_state, address, type, W32(threads.val))
    IN  /\ threads.cpu \in {"read", "write"}
        /\ IF type = MODE_WRITE /\ StartsSystemTimer(address, threads.val)
           THEN /\ threads' = [trigger_usleep(threads) EXCEPT !.cpu = "trigger"]
                /\ UNCHANGED <<eos_state, op>>
           ELSE /\ eos_state' = r.st
                /\ op' = Op(IF type = MODE_READ THEN "io_read" ELSE "io_write",
                            threads.acc, threads.val, r.ret)
                /\ threads' = [lock_release(threads) EXCEPT !.cpu = "idle"]
        /\ UNCHANGED <<ticks, track, flight, scope>>

\* eos_trigger_int after the usleep, called by the start write of the system timer
CpuTrigger ==
    /\ threads.cpu = "trigger"
    /\ eos_state' = eos_trigger_int(eos_state, TIMER_INTERRUPT,
                                    W32Shr8(eos_state.timer_reload_value[DRYOS_TIMER_ID]))
    /\ threads' = [threads EXCEPT !.cpu = "enable"]
    /\ UNCHANGED <<op, ticks, track, flight, scope>>

\* timer_enabled[timer_id] = 1, the handler returns and the lock is released
CpuReturn ==
    /\ threads.cpu = "enable"
    /\ eos_state' = [eos_state EXCEPT !.timer_enabled[DRYOS_TIMER_ID] = TRUE]
    /\ op' = Op("io_write", threads.acc, threads.val, W32(0))
    /\ threads' = [lock_release(threads) EXCEPT !.cpu = "idle"]
    /\ UNCHANGED <<ticks, track, flight, scope>>

\* interrupt_timer expires and the timer thread enters eos_interrupt_timer_cb under
\* the lock
TimerBegin ==
    /\ ~eos_state.aborted
    /\ eos_state.interrupt_timer
    /\ ticks < scope.max_ticks
    /\ threads.timer = 0
    /\ lock_free(threads)
    /\ threads' = [lock_take(threads, "timer") EXCEPT !.timer = 1, !.timer_start = eos_state]
    /\ eos_state' = [eos_state EXCEPT !.interrupt_timer = FALSE]
    /\ UNCHANGED <<op, ticks, track, flight, scope>>

\* the parts of eos_interrupt_timer_body in the order of the source: the clocks, the
\* countdown timers, the interrupt scan, the UTimers, the HPTimers, the CF transfers
timer_part(st, part) ==
    IF st.cpu_stopped \/ st.aborted THEN st
    ELSE CASE part = 1 -> clock_step(st)
           [] part = 2 -> countdown_step(st)
           [] part = 3 -> irq_scan(st, INT_ENTRIES - 1)
           [] part = 4 -> utimer_scan(st, 0)
           [] part = 5 -> hptimer_step(st)
           [] part = 6 -> cf_step(st)

\* one part of the callback; after the last one the timer is re-armed and the lock
\* released
TimerPart ==
    /\ threads.timer \in 1 .. 6
    /\ IF threads.timer < 6
       THEN /\ eos_state' = timer_part(eos_state, threads.timer)
            /\ threads' = [threads EXCEPT !.timer = threads.timer + 1]
            /\ UNCHANGED <<op, ticks>>
       ELSE /\ eos_state' = LET s1 == timer_part(eos_state, threads.timer)
                            IN  IF s1.aborted THEN s1
                                ELSE [s1 EXCEPT !.interrupt_timer = TRUE]
            /\ threads' = [lock_release(threads) EXCEPT !.timer = 0]
            /\ op' = Op("tick", IF threads.timer_start.cpu_stopped THEN 0 ELSE 1, 0, W32(0))
            /\ ticks' = ticks + 1
    /\ UNCHANGED <<track, flight, scope>>

\* write to the reset-trigger register (0x204) of an HPTimer or to the triggered
\* register (0x10) of a UTimer
TriggeredWrite ==
    \E value \in {0, 1} :
        \/ \E slot \in scope.hp_slots :
              LET r == eos_handle_hptimer(eos_state, HPTimerAddr(slot, 516), MODE_WRITE, W32(value))
              IN  /\ ~eos_state.aborted
                  /\ eos_state' = r.st
                  /\ op' = Op("hp_triggered", slot, value, r.ret)
                  /\ UNCHANGED <<ticks, track, flight, scope, threads>>
        \/ \E slot \in scope.ut_slots :
              LET r == eos_handle_utimer(eos_state, UTimerAddr(slot, 16), MODE_WRITE, W32(value))
              IN  /\ ~eos_state.aborted
                  /\ eos_state' = r.st
                  /\ op' = Op("ut_triggered", slot, value, r.ret)
                  /\ UNCHANGED <<ticks, track, flight, scope, threads>>

\* write to the start/stop (0x00) or reload (0x08) register of a countdown timer,
\* named by what it asks for
TimerRegWrite ==
    \E slot \in scope.timer_slots, reg \in {0, 8} :
        \E value \in IF reg = 0 THEN scope.starts ELSE scope.reloads :
            LET r == eos_handle_timers(eos_state, 0, TimerAddr(slot, reg), MODE_WRITE, W32(value))
            IN  /\ ~eos_state.aborted
                /\ eos_state' = r.st
                /\ op' = Op(IF reg = 8 THEN "timer_reload"
                            ELSE IF value % 2 = 1 THEN "timer_start" ELSE "timer_stop",
                            slot, value, r.ret)
                /\ track' = TrackStart(eos_state, slot, reg, value)
                /\ UNCHANGED <<ticks, flight, scope, threads>>

\* 0xC0A00000 + 0x10000 * channel + reg : the registers of a synchronous DMA channel
DmaChannelAddr(channel, reg) == <<49312 + channel, reg>>

\* the values last written to srcAddr (d), dstAddr (n) and count (id) through the
\* addresses of DMA channel 1
OwnRegs == [kind |-> "own", id |-> 0, d |-> 0, n |-> 0]

TrackOwn(channel, reg, value) ==
    IF channel # 1 THEN track
    ELSE IF reg = 24 THEN [track EXCEPT !.d = value]
    ELSE IF reg = 28 THEN [track EXCEPT !.n = value]
    ELSE IF reg = 32 THEN [track EXCEPT !.id = value]
    ELSE track

\* write to the srcAddr (0x18), dstAddr (0x1C), count (0x20) or control (0x08)
\* register of a DMA channel, dispatched through the handler table
DmaChannelWrite ==
    \E channel \in scope.dma_channels, reg \in {8, 24, 28, 32} :
        \E value \in scope.dma_values[channel][reg] :
            LET address == DmaChannelAddr(channel, reg)
                entry   == eos_handlers[eos_find_handler(address)]
                r       == eos_handle_dma(eos_state, entry.parm, address, MODE_WRITE, W32(value))
                start   == reg = 8 /\ value % 2 = 1
            IN  /\ ~eos_state.aborted
                /\ entry.handle = "eos_handle_dma"
                /\ start => Len(eos_state.ram) < MaxRamBlocks
                /\ eos_state' = r.st
                /\ op' = Op("dma_channel", 256 * channel + reg, value, r.ret)
                /\ track' = TrackOwn(channel, reg, value)
                /\ UNCHANGED <<ticks, flight, scope, threads>>

----------------------------------------------------------------------------
(* The interrupt controller under trigger calls, enable / reason / reset    *)
(* accesses, one HPTimer slot and the periodic callback.                    *)

ScopeInt ==
    [ ids          |-> {0, 5},
      delays       |-> [id \in {0, 5} |-> MaxDelay],
      enable_ids   |-> {5, HPTIMER_INTERRUPT},
      enable_addrs |-> {<<49184, 4112>>},
      reason_addrs |-> {<<49184, 4096>>, <<49184, 4100>>},
      reset_addrs  |-> {<<49184, 4608>>},
      hp_slots     |-> {6},
      vx_regs      |-> {},
      max_ticks    |-> MaxTicks ]

Init ==
    /\ eos_state = InitState
    /\ op = Op("init", 0, 0, W32(0))
    /\ ticks = 0
    /\ track = OffTrack
    /\ flight = "none"
    /\ scope = ScopeInt
    /\ threads = NoThreads

Next ==
    \/ Trigger
    \/ EnableWrite
    \/ ReasonRead
    \/ ResetWrite
    \/ HPTimerWrite
    \/ Tick

Spec == Init /\ [][Next]_vars

----------------------------------------------------------------------------
(* Claims about the interrupt controller, checked under Spec *)

\* C1: active_id changes only from 0 to a non-zero id (by a trigger call or a tick)
\* or from a non-zero id to 0 (by a reason read or a reset write); it never goes
\* from one non-zero id to a different non-zero id.
C1_ActiveNeverOverwritten ==
    [][ /\ (eos_state.irq_id # 0 /\ eos_state'.irq_id # 0
               => eos_state'.irq_id = eos_state.irq_id)
        /\ (eos_state.irq_id # 0 /\ eos_state'.irq_id = 0
               => op'.name \in {"reason_read", "reset_write"})
        /\ (eos_state.irq_id = 0 /\ eos_state'.irq_id # 0
               => op'.name \in {"trigger", "tick"}) ]_vars

\* an enabled id was triggered with delay 0 while a different interrupt was active
C1_Witness ==
    /\ op.name = "trigger" /\ op.a # 0 /\ op.b = 0
    /\ eos_state.irq_enabled[op.a]
    /\ eos_state.irq_id # 0 /\ eos_state.irq_id # op.a

\* C2 as stated: from the immediate activation by trigger(id,0) until the reason
\* register is read, no trigger call and no tick raises the line again or changes
\* active_id.
C2_UntilReasonRead ==
    [][ (flight \in {"open", "reset"} /\ op'.name \in {"trigger", "tick"})
            => /\ eos_state'.irq_id = eos_state.irq_id
               /\ eos_state'.hard_raised = eos_state.hard_raised ]_vars

\* C2 amended: the immediate activation raises the line exactly once and, until the
\* reason register is read or the reset-IRQ register is written with a non-zero
\* value, no trigger call and no tick raises the line again or changes active_id.
C2_SingleFlight ==
    [][ /\ (flight = "open" /\ op'.name \in {"trigger", "tick"})
            => /\ eos_state'.irq_id = eos_state.irq_id
               /\ eos_state'.hard_raised = eos_state.hard_raised
        /\ flight' = "open"
            => /\ eos_state'.hard_raised = 1
               /\ eos_state'.cpu_hard
               /\ eos_state'.irq_id # 0 ]_vars

\* a tick ran with a due, enabled interrupt while the first one was still in flight
C2_Witness ==
    /\ flight = "open"
    /\ op.name = "tick" /\ op.a = 1
    /\ \E id \in IntIds : eos_state.irq_schedule[id] = 1 /\ eos_state.irq_enabled[id]

\* C3 as stated: a read of the reason register returns active_id itself, clears it
\* and deasserts the line.
C3_ReturnsActiveId ==
    [][ op'.name = "reason_read"
            => /\ op'.ret = W32(eos_state.irq_id)
               /\ eos_state'.irq_id = 0
               /\ ~eos_state'.cpu_hard ]_vars

\* C3 amended: a read of the reason register returns active_id (shifted left by two
\* bits at the register whose address has a non-zero low nibble, 0xC0201004), sets
\* active_id to 0 and deasserts the line; a read that directly follows another read
\* returns 0 and finds the line already deasserted.
C3_AckIdempotent ==
    [][ op'.name = "reason_read"
            => /\ op'.ret = W32(IF op'.a % 16 # 0
                                THEN 4 * eos_state.irq_id ELSE eos_state.irq_id)
               /\ eos_state'.irq_id = 0
               /\ ~eos_state'.cpu_hard
               /\ eos_state'.hard_raised = 0
               /\ (op.name = "reason_read"
                      => op'.ret = W32(0) /\ ~eos_state.cpu_hard) ]_vars

\* interrupt 5 was acknowledged at 0xC0201000
C3_Witness ==
    /\ op.name = "reason_read" /\ op.a = 4096 /\ op.ret = W32(5)
    /\ eos_state.irq_id = 0 /\ ~eos_state.cpu_hard

\* C5: trigger(id,0) with id # 0 enabled and no interrupt active makes id active,
\* clears enabled[id] and raises the line, leaves enabled and scheduled of every
\* other id unchanged; an id is activated only while enabled, and only an enable
\* write sets enabled.
C5_ImmediateActivation ==
    [][ /\ (/\ op'.name = "trigger" /\ op'.a # 0 /\ op'.b = 0
            /\ eos_state.irq_enabled[op'.a] /\ eos_state.irq_id = 0)
            => /\ eos_state'.irq_id = op'.a
               /\ ~eos_state'.irq_enabled[op'.a]
               /\ eos_state'.cpu_hard
               /\ \A j \in IntIds \ {op'.a} :
                      /\ eos_state'.irq_enabled[j] = eos_state.irq_enabled[j]
                      /\ eos_state'.irq_schedule[j] = eos_state.irq_schedule[j]
        /\ (eos_state'.irq_id # 0 /\ eos_state'.irq_id # eos_state.irq_id)
            => eos_state.irq_enabled[eos_state'.irq_id]
        /\ (\E j \in IntIds : ~eos_state.irq_enabled[j] /\ eos_state'.irq_enabled[j])
            => op'.name = "enable" ]_vars

\* trigger(5,0) has just activated interrupt 5
C5_Witness ==
    /\ op.name = "trigger" /\ op.a = 5 /\ op.b = 0
    /\ eos_state.irq_id = 5 /\ ~eos_state.irq_enabled[5] /\ eos_state.cpu_hard
    /\ flight = "open"

\* C6: a trigger call that does not activate immediately leaves active_id and the
\* line unchanged and sets scheduled[id] to max(delay,1) if id is enabled and to 1
\* if id is disabled.
C6_DeferredTrigger ==
    [][ (/\ op'.name = "trigger" /\ op'.a # 0
         /\ ~(op'.b = 0 /\ eos_state.irq_enabled[op'.a] /\ eos_state.irq_id = 0))
            => /\ eos_state'.irq_id = eos_state.irq_id
               /\ eos_state'.cpu_hard = eos_state.cpu_hard
               /\ eos_state'.hard_raised = eos_state.hard_raised
               /\ eos_state'.irq_schedule[op'.a] =
                      IF eos_state.irq_enabled[op'.a] THEN Max(op'.b, 1) ELSE 1 ]_vars

\* a disabled id was triggered with delay 2 and is scheduled for the next tick
C6_Witness ==
    /\ op.name = "trigger" /\ op.a # 0 /\ op.b = 2
    /\ ~eos_state.irq_enabled[op.a]
    /\ eos_state.irq_schedule[op.a] = 1

----------------------------------------------------------------------------
(* Three interrupt ids competing within one tick *)

ScopePrio ==
    [ ids          |-> {5, 6, 7},
      delays       |-> [id \in {5, 6, 7} |-> 1],
      enable_ids   |-> {5, 6, 7},
      enable_addrs |-> {<<49184, 4112>>},
      reason_addrs |-> {<<49184, 4096>>},
      reset_addrs  |-> {},
      hp_slots     |-> {},
      vx_regs      |-> {},
      max_ticks    |-> MaxTicksPrio ]

InitPrio ==
    /\ eos_state = InitState
    /\ op = Op("init", 0, 0, W32(0))
    /\ ticks = 0
    /\ track = OffTrack
    /\ flight = "none"
    /\ scope = ScopePrio
    /\ threads = NoThreads

NextPrio ==
    \/ Trigger
    \/ EnableWrite
    \/ ReasonRead
    \/ Tick

SpecPrio == InitPrio /\ [][NextPrio]_vars

\* id is scheduled for the next tick and enabled
Due(st, id) == st.irq_schedule[id] = 1 /\ st.irq_enabled[id]

\* C7 as stated: if no interrupt is active at the start of a tick and two ids a > b
\* are both due and enabled, a becomes active and b is left pending.
C7_AnyDuePair ==
    [][ (op'.name = "tick" /\ op'.a = 1 /\ eos_state.irq_id = 0)
            => \A a, b \in IntIds :
                   (a > b /\ b > 0 /\ Due(eos_state, a) /\ Due(eos_state, b))
                       => /\ eos_state'.irq_id = a
                          /\ eos_state'.irq_schedule[b] = 1
                          /\ eos_state'.irq_enabled[b] ]_vars

\* C7 amended: if no interrupt is active at the start of a tick and two ids a > b are
\* both due and enabled and no id above a is due and enabled, a becomes active and b
\* is left pending; an id is activated in a tick only if no higher id was due and
\* enabled at its start.
C7_DescendingPriority ==
    [][ (op'.name = "tick" /\ op'.a = 1)
            => /\ eos_state.irq_id = 0
                   => \A a, b \in IntIds :
                          (/\ a > b /\ b > 0 /\ Due(eos_state, a) /\ Due(eos_state, b)
                           /\ \A c \in IntIds : c > a => ~Due(eos_state, c))
                              => /\ eos_state'.irq_id = a
                                 /\ eos_state'.irq_schedule[b] = 1
                                 /\ eos_state'.irq_enabled[b]
               /\ \A b \in IntIds :
                      Activated(eos_state, eos_state', b)
                          => \A h \in IntIds : h > b => ~Due(eos_state, h) ]_vars

\* the first tick activated 6 and left 5 due and enabled
C7_Witness ==
    /\ ticks = 1 /\ op.name = "tick" /\ op.a = 1 /\ flight = "none"
    /\ eos_state.irq_id = 6
    /\ Due(eos_state, 5)

----------------------------------------------------------------------------
(* Delayed and masked delivery, with the CPU stopped and resumed by the     *)
(* debugger and the older controller interface masking interrupts           *)

ScopeDelay ==
    [ ids          |-> {5, 6},
      delays       |-> [id \in {5, 6} |-> IF id = 5 THEN MaxDelayTracked ELSE 0],
      enable_ids   |-> {5, 6},
      enable_addrs |-> {<<49184, 4112>>},
      reason_addrs |-> {<<49184, 4096>>},
      reset_addrs  |-> {},
      hp_slots     |-> {},
      vx_regs      |-> {12},
      max_ticks    |-> MaxTicksTracked ]

InitDelay ==
    /\ eos_state = InitState
    /\ op = Op("init", 0, 0, W32(0))
    /\ ticks = 0
    /\ track = NoTrack
    /\ flight = "none"
    /\ scope = ScopeDelay
    /\ threads = NoThreads

NextDelay ==
    \/ Trigger
    \/ EnableWrite
    \/ VxWrite
    \/ ReasonRead
    \/ GdbStop
    \/ GdbCont
    \/ Tick

SpecDelay == InitDelay /\ [][NextDelay]_vars

\* C8: after trigger(id, d), d >= 1, on an enabled id that stays enabled and is not
\* triggered again, every tick before the d-th decrements scheduled[id] by one and
\* does not activate id, and the d-th tick activates id unless an interrupt is
\* active when id is scanned.
C8_ExactDelay ==
    [][ (track.kind = "armed" /\ op'.name = "tick" /\ op'.a = 1)
            => IF track.n + 1 < track.d
               THEN /\ eos_state'.irq_schedule[track.id] = track.d - (track.n + 1)
                    /\ ~Activated(eos_state, eos_state', track.id)
               ELSE ~Blocked(eos_state, track.id)
                        => Activated(eos_state, eos_state', track.id) ]_vars

\* trigger(id,3) on an enabled id was delivered by the third tick after the call
C8_Witness ==
    track.kind = "armed_fired" /\ track.d = 3 /\ track.n = 3
        /\ eos_state.irq_id = track.id

\* C9 as stated: after trigger(5,3) on the disabled id 5, with 5 enabled before
\* tick 3, id 5 is not activated by tick 1 or tick 2 and is activated by tick 3.
C9_ExactlyTickThree ==
    [][ (/\ track.kind = "masked" /\ track.id = 5 /\ track.d = 3
         /\ op'.name = "tick" /\ op'.a = 1)
            => /\ track.n + 1 < 3 => ~Activated(eos_state, eos_state', 5)
               /\ (track.n + 1 = 3 /\ eos_state.irq_enabled[5] /\ ~Blocked(eos_state, 5))
                      => Activated(eos_state, eos_state', 5) ]_vars

\* C9 amended: after trigger(5,3) on the disabled id 5 the requested delay is
\* replaced by 1: id 5 stays scheduled at 1, no tick activates it while it is
\* disabled, and the first tick at whose start it is enabled activates it (unless an
\* interrupt is active when it is scanned) -- tick 3 only if it is enabled between
\* tick 2 and tick 3, an earlier tick if it is enabled earlier.
C9_MaskedRetry ==
    [][ (track.kind = "masked" /\ op'.name = "tick" /\ op'.a = 1)
            => /\ eos_state.irq_schedule[track.id] = 1
               /\ (eos_state.irq_enabled[track.id] /\ ~Blocked(eos_state, track.id))
                      => Activated(eos_state, eos_state', track.id)
               /\ ~eos_state.irq_enabled[track.id]
                      => /\ ~Activated(eos_state, eos_state', track.id)
                         /\ eos_state'.irq_schedule[track.id] = 1 ]_vars

\* trigger(5,3) on the disabled id 5 was delivered by the third tick after the call
C9_Witness ==
    track.kind = "masked_fired" /\ track.id = 5 /\ track.d = 3 /\ track.n = 3
        /\ eos_state.irq_id = 5

----------------------------------------------------------------------------
(* Lookups at the first and last address of every range of the table and at *)
(* the addresses next to them                                               *)

LookupAddrs ==
    UNION { { eos_handlers[pos].start, eos_handlers[pos].end,
              W32Sub(eos_handlers[pos].start, W32(1)), W32Add(eos_handlers[pos].end, 1) }
            : pos \in 1 .. Len(eos_handlers) }

\* one call of eos_find_handler on the address drawn by InitLookup
Lookup ==
    /\ op.name = "input"
    /\ op' = Op("find_handler", op.a, 0, eos_find_handler(op.a))
    /\ UNCHANGED <<eos_state, ticks, track, flight, scope, threads>>

InitLookup ==
    /\ eos_state = InitState
    /\ op \in {Op("input", address, 0, 0) : address \in LookupAddrs}
    /\ ticks = 0
    /\ track = OffTrack
    /\ flight = "none"
    /\ scope = ScopePrio
    /\ threads = NoThreads

NextLookup == Lookup

SpecLookup == InitLookup /\ [][NextLookup]_vars

\* C4: eos_find_handler returns the entry with the smallest table index whose
\* inclusive range [start,end] contains the address, whatever the sizes of the
\* ranges, and returns no entry exactly when no range contains the address.
C4_FirstMatch ==
    op.name = "find_handler"
        => LET hits == {pos \in 1 .. Len(eos_handlers) :
                           /\ ~W32Gt(eos_handlers[pos].start, op.a)
                           /\ ~W32Gt(op.a, eos_handlers[pos].end)}
           IN  /\ (hits = {}) = (op.ret = 0)
               /\ hits # {} => (op.ret \in hits /\ \A q \in hits : op.ret <= q)

\* 0xDFFC4FA0 lies in the wide DIGIC6 range and in the narrower BOOTX range declared
\* after it: the lookup returns DIGIC6
C4_Witness ==
    /\ op.name = "find_handler" /\ op.a = <<57340, 20384>>
    /\ eos_handlers[op.ret].label = "DIGIC6"
    /\ \E pos \in 1 .. Len(eos_handlers) :
           /\ pos > op.ret /\ eos_handlers[pos].label = "BOOTX"
           /\ handler_contains(pos, op.a)

----------------------------------------------------------------------------
(* A countdown timer started, stopped and reloaded between ticks *)

ScopeCountdown ==
    [ timer_slots |-> {1},
      reloads     |-> {300, 2560},
      max_ticks   |-> MaxTicksCountdown ]

InitCountdown ==
    /\ eos_state = InitState
    /\ op = Op("init", 0, 0, W32(0))
    /\ ticks = 0
    /\ track = NoTrack
    /\ flight = "none"
    /\ scope = ScopeCountdown
    /\ threads = NoThreads

NextCountdown ==
    \/ TimersWrite
    \/ Tick

SpecCountdown == InitCountdown /\ [][NextCountdown]_vars

\* C10: n ticks after an enabled countdown timer with reload value R started from 0,
\* current_value is 256 * (n mod (floor(R/256) + 1)): it grows by 256 per tick, is
\* reset to 0 by the tick whose sum exceeds R (for R = 2560: 256, ..., 2560 after
\* ticks 1..10 and 0 after tick 11, cycle after cycle), and never exceeds R.
C10_CountdownWrap ==
    track.kind = "count"
        => LET R      == eos_state.timer_reload_value[track.id]
               cycle  == (R[1] * 65536 + R[2]) \div DIGIC_TIMER_STEP + 1
               cur    == eos_state.timer_current_value[track.id]
           IN  /\ eos_state.timer_enabled[track.id]
               /\ cur = W32(DIGIC_TIMER_STEP * (track.n % cycle))
               /\ ~W32Gt(cur, R)
               /\ (R = W32(2560) /\ track.n \in {10, 21, 32}) => cur = W32(2560)
               /\ (R = W32(2560) /\ track.n \in {11, 22, 33}) => cur = W32(0)

\* the timer with reload value 2560 has completed its third wrap, 33 ticks after the start
C10_Witness ==
    /\ track.kind = "count" /\ track.n = 33
    /\ eos_state.timer_reload_value[track.id] = W32(2560)
    /\ eos_state.timer_current_value[track.id] = W32(0)
    /\ op.name = "tick"

----------------------------------------------------------------------------
(* Output compare of one HPTimer and one UTimer, written relative to the    *)
(* clock, at clock values around the wrap of the 20-bit and 32-bit counters *)

\* 0x00000000, 0x0007FF00, 0x000FFE00, 0x000FFF00, 0xFFFFFE00, 0xFFFFFF00
CompareClocks ==
    { <<0, 0>>, <<7, 65280>>, <<15, 65024>>, <<15, 65280>>, <<65535, 65024>>, <<65535, 65280>> }

ScopeCompare ==
    [ hp_slots  |-> {6},
      ut_slots  |-> {0},
      offsets   |-> {-512, -257, 0},
      max_ticks |-> MaxTicksCompare ]

\* the clock has run to one of CompareClocks; the two timer interrupts are both
\* enabled or both masked
InitCompare ==
    /\ \E clock \in CompareClocks, en \in BOOLEAN :
          eos_state = [InitState EXCEPT
                          !.digic_timer32 = clock,
                          !.digic_timer20 = (clock[1] % 16) * 65536 + clock[2],
                          !.irq_enabled[utimer_interrupts[0]] = en,
                          !.irq_enabled[hptimer_interrupts[6]] = en]
    /\ op = Op("init", 0, 0, W32(0))
    /\ ticks = 0
    /\ track = NoTrack
    /\ flight = "none"
    /\ scope = ScopeCompare
    /\ threads = NoThreads

NextCompare ==
    \/ HPCompareWrite
    \/ UTCompareWrite
    \/ ActiveWrite
    \/ Tick

SpecCompare == InitCompare /\ [][NextCompare]_vars

\* eos_trigger_int(id, 0) was called in the step: id is active or pending
Raised(post, id) == post.irq_id = id \/ post.irq_schedule[id] = 1

\* C11 as stated: in both timer families and at every clock value, a compare write
\* whose rounded target is behind the clock sets output_compare to clock + STEP, and
\* a timer that is active fires (triggered set, interrupt raised) in the next tick.
C11_SnapForward ==
    [][ /\ (op'.name = "hp_compare" /\ Behind(op'.b))
              => eos_state'.HPTimers[op'.a].output_compare
                     = eos_state.digic_timer20 + DIGIC_TIMER_STEP
        /\ (op'.name = "ut_compare" /\ Behind(op'.b))
              => eos_state'.UTimers[op'.a].output_compare
                     = W32Add(eos_state.digic_timer32, DIGIC_TIMER_STEP)
        /\ (/\ op'.name = "tick" /\ op'.a = 1 /\ track.kind = "snap_hp"
            /\ eos_state.HPTimers[track.id].active # W32(0))
              => /\ eos_state'.HPTimers[track.id].triggered = W32(1)
                 /\ Raised(eos_state', hptimer_interrupts[track.id])
        /\ (/\ op'.name = "tick" /\ op'.a = 1 /\ track.kind = "snap_ut"
            /\ eos_state.UTimers[track.id].active # W32(0))
              => /\ eos_state'.UTimers[track.id].triggered = W32(1)
                 /\ Raised(eos_state', utimer_interrupts[track.id]) ]_vars

\* C11, the part the code delivers: the same, except that an HPTimer whose compare
\* value was snapped at the last clock value before the 20-bit wrap (0xFFF00) holds
\* 0x100000 and does not fire in the next tick.
C11_SnapForwardBelowWrap ==
    [][ /\ (op'.name = "hp_compare" /\ Behind(op'.b))
              => eos_state'.HPTimers[op'.a].output_compare
                     = eos_state.digic_timer20 + DIGIC_TIMER_STEP
        /\ (op'.name = "ut_compare" /\ Behind(op'.b))
              => eos_state'.UTimers[op'.a].output_compare
                     = W32Add(eos_state.digic_timer32, DIGIC_TIMER_STEP)
        /\ (/\ op'.name = "tick" /\ op'.a = 1 /\ track.kind = "snap_hp"
            /\ eos_state.HPTimers[track.id].active # W32(0))
              => IF eos_state.digic_timer20 = DIGIC_TIMER20_MASK
                 THEN /\ eos_state'.HPTimers[track.id] = eos_state.HPTimers[track.id]
                      /\ eos_state'.HPTimers[track.id].output_compare > DIGIC_TIMER20_MASK
                 ELSE /\ eos_state'.HPTimers[track.id].triggered = W32(1)
                      /\ Raised(eos_state', hptimer_interrupts[track.id])
        /\ (/\ op'.name = "tick" /\ op'.a = 1 /\ track.kind = "snap_ut"
            /\ eos_state.UTimers[track.id].active # W32(0))
              => /\ eos_state'.UTimers[track.id].triggered = W32(1)
                 /\ Raised(eos_state', utimer_interrupts[track.id]) ]_vars

\* an active HPTimer snapped at clock 0xFFF00 holds compare value 0x100000 after the
\* tick that wrapped the clock to 0, and has not fired
C11_Witness ==
    /\ op.name = "tick" /\ op.a = 1 /\ ticks = 1
    /\ eos_state.digic_timer20 = 0
    /\ eos_state.HPTimers[6].active # W32(0)
    /\ eos_state.HPTimers[6].output_compare = 1048576
    /\ eos_state.HPTimers[6].triggered = W32(0)

----------------------------------------------------------------------------
(* Synchronous DMA: source, destination and count written, transfers        *)
(* started, the memory read back                                            *)

ScopeDmaCopy ==
    [ dma_values |-> [reg \in {8, 24, 28, 32} |->
                         CASE reg = 8  -> {0, 1}
                           [] reg = 24 -> {65536}
                           [] reg = 28 -> {70000, 131072}
                           [] reg = 32 -> {0, 1, 8192, 8193}] ]

InitDmaCopy ==
    /\ eos_state = InitState
    /\ op = Op("init", 0, 0, W32(0))
    /\ ticks = 0
    /\ track = OffTrack
    /\ flight = "none"
    /\ scope = ScopeDmaCopy
    /\ threads = NoThreads

NextDmaCopy == DmaWrite

SpecDmaCopy == InitDmaCopy /\ [][NextDmaCopy]_vars

\* the step is a start write (bit 0 set) to the control register
DmaStart == op'.name = "dma_write" /\ op'.a = 8 /\ op'.b % 2 = 1

\* C12: when a start write returns, with src, dst, count the register values at the
\* call and [src, src+count) and [dst, dst+count) disjoint, every byte dst+i, i < count,
\* holds what src+i held at the call, and the bytes of the source range and those
\* next to the destination range (64 before, 64 after) hold what they held before.
C12_SyncCopy ==
    [][ DmaStart
            => LET src   == W32Int(eos_state.dma_srcAddr)
                   dst   == W32Int(eos_state.dma_dstAddr)
                   count == W32Int(eos_state.dma_count)
                   pre   == eos_state.ram
                   post  == eos_state'.ram
               IN  (src + count <= dst \/ dst + count <= src)
                      => /\ \A i \in 0 .. count - 1 :
                               mem_read(post, Len(post), dst + i) = mem_read(pre, Len(pre), src + i)
                         /\ \A a \in (src .. src + count - 1) \cup (dst - 64 .. dst - 1)
                                        \cup (dst + count .. dst + count + 63) :
                               (a < dst \/ a >= dst + count)
                                  => mem_read(post, Len(post), a) = mem_read(pre, Len(pre), a) ]_vars

\* after one byte was copied from 0x10000 to 70000, 8193 bytes (one block and one
\* byte) were copied from 0x10000 to 0x20000: the last byte arrived, and byte 4464
\* of the destination holds what the first transfer had stored at 70000
C12_Witness ==
    /\ op.name = "dma_write" /\ op.a = 8 /\ op.b = 1
    /\ eos_state.dma_srcAddr = W32(65536) /\ eos_state.dma_dstAddr = W32(131072)
    /\ eos_state.dma_count = W32(8193)
    /\ Len(eos_state.ram) = 3
    /\ mem_read(eos_state.ram, 3, 131072 + 8192) = ram_initial(65536 + 8192)
    /\ mem_read(eos_state.ram, 3, 131072 + 4464) = ram_initial(65536)

----------------------------------------------------------------------------
(* Synchronous DMA completion: transfers of several lengths started on      *)
(* channel 1 (completion interrupt 0x2f), between ticks, with the           *)
(* completion interrupt and interrupt 5 enabled, triggered and acknowledged *)

ScopeDma ==
    [ ids          |-> {5},
      delays       |-> [id \in {5} |-> 0],
      enable_ids   |-> {5, dma_interruptId[2]},
      enable_addrs |-> {<<49184, 4112>>},
      reason_addrs |-> {<<49184, 4096>>},
      dma_values   |-> [reg \in {8, 24, 28, 32} |->
                           CASE reg = 8  -> {1}
                             [] reg = 32 -> {9999, 10000, 20000}
                             [] OTHER    -> {}],
      max_ticks    |-> MaxTicksDma ]

InitDma ==
    /\ eos_state = InitState
    /\ op = Op("init", 0, 0, W32(0))
    /\ ticks = 0
    /\ track = NoTrack
    /\ flight = "none"
    /\ scope = ScopeDma
    /\ threads = NoThreads

NextDma ==
    \/ DmaWrite
    \/ Trigger
    \/ EnableWrite
    \/ ReasonRead
    \/ Tick

SpecDma == InitDma /\ [][NextDma]_vars

----------------------------------------------------------------------------
(* Polled CF DMA: a 4-byte transfer set up and started in either direction, *)
(* served by ticks in which the card has its word ready or not, with and    *)
(* without instruction counting                                             *)

ScopeCf ==
    [ cf_writes |-> { [dev |-> "cfdma", reg |-> 4,     value |-> 4],       \* byte count
                      [dev |-> "cfdma", reg |-> 16,    value |-> 57],      \* read start
                      [dev |-> "cfdma", reg |-> 16,    value |-> 61],      \* write start
                      [dev |-> "cfata", reg |-> 32832, value |-> 1] },     \* interrupt enable
      cf_ready  |-> {0, 1},
      max_ticks |-> MaxTicksCf ]

InitCf ==
    /\ \E icount \in BOOLEAN : eos_state = [InitState EXCEPT !.use_icount = icount]
    /\ op = Op("init", 0, 0, W32(0))
    /\ ticks = 0
    /\ track = OffTrack
    /\ flight = "none"
    /\ scope = ScopeCf
    /\ threads = NoThreads

NextCf ==
    \/ CfWrite
    \/ CfTick

SpecCf == InitCf /\ [][NextCf]_vars

\* the number of transfer requests (read, write) pending in a state
CfPending(st) ==
    (IF st.cf.dma_read_request # 0 THEN 1 ELSE 0) + (IF st.cf.dma_write_request # 0 THEN 1 ELSE 0)

\* a completion is signalled in a tick only by a transfer that was pending, has moved
\* all its data and has no wait left at the end of the tick
CfCompletionSound ==
    /\ eos_state'.cf.read_done
          => /\ eos_state.cf.dma_read_request # 0
             /\ eos_state'.cf.dma_read = W32Int(eos_state'.cf.dma_count)
             /\ eos_state'.cf.dma_wait <= 0
    /\ eos_state'.cf.write_done
          => /\ eos_state.cf.dma_write_request # 0
             /\ eos_state'.cf.dma_written = W32Int(eos_state'.cf.dma_count)
             /\ eos_state'.cf.dma_wait <= 0
    /\ (eos_state.cf.dma_read_request # 0 /\ ~eos_state'.cf.read_done /\ ~eos_state'.aborted)
          => eos_state'.cf.dma_read_request = 1
    /\ (eos_state.cf.dma_write_request # 0 /\ ~eos_state'.cf.write_done /\ ~eos_state'.aborted)
          => eos_state'.cf.dma_write_request = 1

----------------------------------------------------------------------------
(* The system timer (countdown slot DRYOS_TIMER_ID) started and reloaded,   *)
(* its interrupt enabled and acknowledged, between ticks                    *)

ScopePeriodic ==
    [ timer_slots  |-> {DRYOS_TIMER_ID},
      reloads      |-> {0, 256, 512, 768},
      enable_ids   |-> {TIMER_INTERRUPT},
      enable_addrs |-> {<<49184, 4112>>},
      reason_addrs |-> {<<49184, 4096>>},
      max_ticks    |-> MaxTicksPeriodic ]

InitPeriodic ==
    /\ eos_state = InitState
    /\ op = Op("init", 0, 0, W32(0))
    /\ ticks = 0
    /\ track = PeriodIdle
    /\ flight = "none"
    /\ scope = ScopePeriodic
    /\ threads = NoThreads

NextPeriodic ==
    \/ TimersWrite
    \/ EnableWrite
    \/ ReasonRead
    \/ Tick

SpecPeriodic == InitPeriodic /\ [][NextPeriodic]_vars

\* the period of the system timer in a state: reload_value >> 8
Period(st) == W32Shr8(st.timer_reload_value[DRYOS_TIMER_ID])

C16_PeriodTicks ==
    [][ (op'.name = "tick" /\ track.kind = "period"
             /\ Activated(eos_state, eos_state', TIMER_INTERRUPT))
            => track.n + 1 = track.d ]_vars

\* the behaviour of the callback: the re-arm to P is counted down in the same pass,
\* so the next activation comes Max(P - 1, 1) ticks after it, and never for P = 0
C16_PeriodMinusOne ==
    [][ (op'.name = "tick" /\ track.kind = "period"
             /\ eos_state.irq_enabled[TIMER_INTERRUPT] /\ eos_state.irq_id = 0)
            => (Activated(eos_state, eos_state', TIMER_INTERRUPT)
                    <=> (track.d >= 1 /\ track.n + 1 = Max(track.d - 1, 1))) ]_vars

\* the callback activated the periodic id a second time, two ticks after the first
\* activation, with a period of three ticks
C16_Witness ==
    /\ op.name = "tick"
    /\ track.kind = "period" /\ track.d = 3 /\ track.n = 0
    /\ eos_state.irq_id = TIMER_INTERRUPT
    /\ ticks = 5

----------------------------------------------------------------------------
(* Register accesses through the dispatch entry point, at addresses inside  *)
(* and outside the ranges of the handler table, between ticks               *)

\* 0xC0201010 enable, 0xC0201004 reason, 0xC0210200 / 0xC0210208 start and reload
\* of the system timer, 0xC0A10018 DMA1 source; 0xC0211000, 0xC0200100 and
\* 0xC0A00FFC lie in no range of the table
ScopeDispatch ==
    [ io_addrs   |-> << <<49184, 4112>>, <<49184, 4100>>, <<49185, 512>>, <<49185, 520>>,
                        <<49313, 24>>, <<49185, 4096>>, <<49184, 256>>, <<49312, 4092>> >>,
      io_values  |-> << {TIMER_INTERRUPT}, {}, {1}, {512}, {4096}, {0, 4660}, {4660}, {4660} >>,
      io_reads   |-> {2, 4, 5, 6, 7, 8},
      max_ticks  |-> MaxTicksDispatch ]

InitDispatch ==
    /\ eos_state = InitState
    /\ op = Op("init", 0, 0, W32(0))
    /\ ticks = 0
    /\ track = OffTrack
    /\ flight = "none"
    /\ scope = ScopeDispatch
    /\ threads = NoThreads

NextDispatch ==
    \/ IoRead
    \/ IoWrite
    \/ Tick

SpecDispatch == InitDispatch /\ [][NextDispatch]_vars

\* the step is a register access at an address that no range of the table contains
UnknownAccess ==
    /\ op'.name \in {"io_read", "io_write"}
    /\ eos_find_handler(scope.io_addrs[op'.a]) = 0

\* the interrupt controller, timer, clock and DMA part of the device state
DeviceState(st) ==
    << st.irq_enabled, st.irq_schedule, st.irq_id, st.cpu_hard, st.hard_raised,
       st.timer_enabled, st.timer_current_value, st.timer_reload_value,
       st.UTimers, st.HPTimers, st.digic_timer20, st.digic_timer32,
       st.dma_srcAddr, st.dma_dstAddr, st.dma_count, st.cf >>

\* C17: a read or a write through the dispatch entry point at an address contained
\* in no registered range ends without a failed assertion, returns 0 for a read and
\* leaves the interrupt controller, timer, clock and DMA state as it was.
C17_UnknownNotFatal ==
    [][ UnknownAccess
            => /\ ~eos_state'.aborted
               /\ op'.name = "io_read" => op'.ret = W32(0)
               /\ DeviceState(eos_state') = DeviceState(eos_state) ]_vars

\* a read at 0xC0211000, one word past the timer registers, while the system timer
\* runs and its interrupt is active: 0 is returned
C17_Witness ==
    /\ op.name = "io_read" /\ scope.io_addrs[op.a] = <<49185, 4096>>
    /\ eos_find_handler(<<49185, 4096>>) = 0
    /\ op.ret = W32(0)
    /\ eos_state.irq_id = TIMER_INTERRUPT /\ eos_state.cpu_hard
    /\ eos_state.timer_enabled[DRYOS_TIMER_ID]
    /\ eos_state.timer_current_value[DRYOS_TIMER_ID] # W32(0)
    /\ ~eos_state.aborted

----------------------------------------------------------------------------
(* Interrupt id 0 *)

\* C19: a call eos_trigger_int(0, delay) stops at the assertion with the device state
\* as it was, and in every reachable state interrupt 0 is not scheduled and the
\* interrupt line is asserted only with an active id other than 0.
C19_TriggerZeroFatal ==
    /\ [](eos_state.irq_schedule[0] = 0 /\ (eos_state.cpu_hard => eos_state.irq_id # 0))
    /\ [][ (op'.name = "trigger" /\ op'.a = 0)
               => /\ eos_state'.aborted
                  /\ eos_state' = [eos_state EXCEPT !.aborted = TRUE] ]_vars

\* eos_trigger_int(0, 2) was called while interrupt 5 was scheduled and the HPTimer
\* interrupt active: the run has stopped and both are as they were
C19_Witness ==
    /\ op.name = "trigger" /\ op.a = 0 /\ op.b = 2
    /\ eos_state.aborted
    /\ eos_state.irq_schedule[5] = 2
    /\ eos_state.irq_id = HPTIMER_INTERRUPT /\ eos_state.cpu_hard
    /\ eos_state.irq_schedule[0] = 0

----------------------------------------------------------------------------
(* The CPU thread and the timer thread: a register access and a callback    *)
(* run step by step, each under the lock                                    *)

\* 0xC0201010 enable, 0xC0201004 reason, 0xC0210200 / 0xC0210208 start and reload
\* of the system timer
ScopeSerial ==
    [ io_addrs   |-> << <<49184, 4112>>, <<49184, 4100>>, <<49185, 512>>, <<49185, 520>> >>,
      io_values  |-> << {TIMER_INTERRUPT}, {}, {0, 1}, {512} >>,
      io_reads   |-> {2},
      max_ticks  |-> MaxTicksSerial ]

InitSerial ==
    /\ eos_state = InitState
    /\ op = Op("init", 0, 0, W32(0))
    /\ ticks = 0
    /\ track = OffTrack
    /\ flight = "none"
    /\ scope = ScopeSerial
    /\ threads = NoThreads

NextSerial ==
    \/ CpuBegin
    \/ CpuHandler
    \/ CpuTrigger
    \/ CpuReturn
    \/ TimerBegin
    \/ TimerPart

SpecSerial == InitSerial /\ [][NextSerial]_vars

\* the register access of the CPU thread ends in this step
CpuEnds == threads.cpu # "idle" /\ threads'.cpu = "idle"

\* the callback of the timer thread ends in this step
TimerEnds == threads.timer # 0 /\ threads'.timer = 0

----------------------------------------------------------------------------
(* The callback re-arming its timer, with the CPU stopped and resumed by    *)
(* the debugger; the host runs a callback whose timer has expired           *)

ScopeRearm ==
    [ ids          |-> {5},
      delays       |-> [id \in {5} |-> 1],
      enable_ids   |-> {5},
      enable_addrs |-> {<<49184, 4112>>},
      reason_addrs |-> {<<49184, 4096>>},
      max_ticks    |-> MaxTicksRearm ]

InitRearm ==
    /\ eos_state = InitState
    /\ op = Op("init", 0, 0, W32(0))
    /\ ticks = 0
    /\ track = OffTrack
    /\ flight = "none"
    /\ scope = ScopeRearm
    /\ threads = NoThreads

NextRearm ==
    \/ Trigger
    \/ EnableWrite
    \/ ReasonRead
    \/ GdbStop
    \/ GdbCont
    \/ Tick

\* the step of NextRearm that counts a callback: it is a Tick step, possible while
\* interrupt_timer is armed
TickRuns ==
    /\ ~eos_state.aborted
    /\ eos_state.interrupt_timer
    /\ ticks < scope.max_ticks
    /\ ticks' = ticks + 1

\* the host's timer list runs the callback of a timer that stays armed
SpecRearm == InitRearm /\ [][NextRearm]_vars /\ WF_ticks(TickRuns)

\* C21: every run of the callback, also one whose body returns at once because the
\* CPU is stopped, leaves interrupt_timer armed: in no state of a running emulator
\* is the timer unarmed, and callback follows callback (up to the number of
\* callbacks the specification counts).
C21_TickRearmed ==
    /\ [](~eos_state.aborted => eos_state.interrupt_timer)
    /\ <>(ticks = MaxTicksRearm \/ eos_state.aborted)

\* the second callback ran with the CPU stopped: its body returned at once, the
\* clock stands where the first callback left it and the timer is armed again
C21_Witness ==
    /\ op.name = "tick" /\ op.a = 0
    /\ eos_state.cpu_stopped
    /\ ticks = 2 /\ eos_state.digic_timer20 = DIGIC_TIMER_STEP
    /\ eos_state.interrupt_timer

----------------------------------------------------------------------------
(* The triggered flags of one HPTimer and one UTimer under compare, active  *)
(* and triggered writes, acknowledge reads and ticks                        *)

ScopeTriggered ==
    [ hp_slots     |-> {6},
      ut_slots     |-> {0},
      offsets      |-> {0},
      reason_addrs |-> {<<49184, 4096>>},
      max_ticks    |-> MaxTicksTriggered ]

InitTriggered ==
    /\ eos_state = [InitState EXCEPT !.irq_enabled[utimer_interrupts[0]] = TRUE,
                                     !.irq_enabled[HPTIMER_INTERRUPT] = TRUE]
    /\ op = Op("init", 0, 0, W32(0))
    /\ ticks = 0
    /\ track = NoTrack
    /\ flight = "none"
    /\ scope = ScopeTriggered
    /\ threads = NoThreads

NextTriggered ==
    \/ HPCompareWrite
    \/ UTCompareWrite
    \/ ActiveWrite
    \/ TriggeredWrite
    \/ ReasonRead
    \/ Tick

SpecTriggered == InitTriggered /\ [][NextTriggered]_vars

\* the step is a tick in which HPTimer / UTimer slot matches the clock
HPMatches(slot) ==
    /\ op'.name = "tick" /\ op'.a = 1
    /\ eos_state.HPTimers[slot].active # W32(0)
    /\ eos_state.HPTimers[slot].output_compare = eos_state'.digic_timer20

UTMatches(slot) ==
    /\ op'.name = "tick" /\ op'.a = 1
    /\ eos_state.UTimers[slot].active # W32(0)
    /\ eos_state.UTimers[slot].output_compare = eos_state'.digic_timer32

\* triggered of the slot goes from clear to set / from set to clear in the step
HPSet(slot) ==
    eos_state.HPTimers[slot].triggered = W32(0) /\ eos_state'.HPTimers[slot].triggered # W32(0)

HPCleared(slot) ==
    eos_state.HPTimers[slot].triggered # W32(0) /\ eos_state'.HPTimers[slot].triggered = W32(0)

UTSet(slot) ==
    eos_state.UTimers[slot].triggered = W32(0) /\ eos_state'.UTimers[slot].triggered # W32(0)

UTCleared(slot) ==
    eos_state.UTimers[slot].triggered # W32(0) /\ eos_state'.UTimers[slot].triggered = W32(0)

\* C22 as stated: in both families triggered is set only by a tick in which the timer
\* matches, and cleared only by a register write of the CPU to the timer's
\* triggered register.
C22_SetByTickOnly ==
    [][ /\ \A slot \in scope.hp_slots :
              /\ HPSet(slot) => HPMatches(slot)
              /\ HPCleared(slot) => (op'.name = "hp_triggered" /\ op'.a = slot)
        /\ \A slot \in scope.ut_slots :
              /\ UTSet(slot) => UTMatches(slot)
              /\ UTCleared(slot) => (op'.name = "ut_triggered" /\ op'.a = slot) ]_vars

\* C22 amended: triggered is set by a tick in which the timer matches and, for a
\* UTimer, also by a write of a non-zero value to its triggered register; it is
\* cleared only by a write to the HPTimer's reset-trigger register or by a write of 0
\* to the UTimer's triggered register: no tick, activation, acknowledge or compare
\* write clears it.
C22_ClearedByWriteOnly ==
    [][ /\ \A slot \in scope.hp_slots :
              /\ HPSet(slot) => HPMatches(slot)
              /\ HPCleared(slot) => (op'.name = "hp_triggered" /\ op'.a = slot)
        /\ \A slot \in scope.ut_slots :
              /\ UTSet(slot)
                    => \/ UTMatches(slot)
                       \/ (op'.name = "ut_triggered" /\ op'.a = slot /\ op'.b # 0)
              /\ UTCleared(slot)
                    => (op'.name = "ut_triggered" /\ op'.a = slot /\ op'.b = 0) ]_vars

\* HPTimer 6 and UTimer 0 fired in the first tick; the UTimer's interrupt was
\* acknowledged, UTimer 0 armed again, and two more ticks ran without a match: both
\* flags are still set
C22_Witness ==
    /\ op.name = "tick" /\ ticks = 3
    /\ eos_state.HPTimers[6].triggered # W32(0)
    /\ eos_state.UTimers[0].triggered # W32(0)
    /\ eos_state.HPTimers[6].output_compare = DIGIC_TIMER_STEP
    /\ eos_state.UTimers[0].output_compare = W32(2 * DIGIC_TIMER_STEP)
    /\ eos_state.digic_timer20 = 3 * DIGIC_TIMER_STEP
    /\ eos_state.irq_id = 0

----------------------------------------------------------------------------
(* Register accesses and ticks under every logging configuration            *)

\* 0xC0201010 enable, 0xC0201004 reason, 0xC0210200 start of the system timer,
\* 0xC0A10008 start of DMA1, 0xC0242014 the narrow clock
ScopeLogging ==
    [ io_addrs   |-> << <<49184, 4112>>, <<49184, 4100>>, <<49185, 512>>, <<49313, 8>>,
                        <<49188, 8212>> >>,
      io_values  |-> << {TIMER_INTERRUPT}, {}, {1}, {1}, {} >>,
      io_reads   |-> {2, 5},
      max_ticks  |-> MaxTicksLogging ]

InitLogging ==
    /\ \E L \in SUBSET LogMasks : eos_state = [InitState EXCEPT !.loglevel = L]
    /\ op = Op("init", 0, 0, W32(0))
    /\ ticks = 0
    /\ track = OffTrack
    /\ flight = "none"
    /\ scope = ScopeLogging
    /\ threads = NoThreads

NextLogging ==
    \/ IoRead
    \/ IoWrite
    \/ Tick

SpecLogging == InitLogging /\ [][NextLogging]_vars

\* the device state without the logging configuration and the log
Behaviour(st) == [st EXCEPT !.loglevel = {}, !.log_last = "none"]

\* the states that differ from st in the logging configuration only, with the
\* log as it is or empty
OtherRuns(st) ==
    {[st EXCEPT !.loglevel = L, !.log_last = tag] :
        L \in SUBSET LogMasks, tag \in {st.log_last, "none"}}

\* C23: an operation made in two states that differ only in the logging
\* configuration (and in the log written so far) returns the same register value
\* and ends in states that again differ only in the logging configuration and the
\* log; two runs of the same accesses and ticks therefore agree after every operation.
C23_LoggingTransparent ==
    [][ \A other \in OtherRuns(eos_state) :
          /\ op'.name = "io_read"
                => LET r == eos_handler(other, scope.io_addrs[op'.a], MODE_READ, W32(0))
                   IN  r.ret = op'.ret /\ Behaviour(r.st) = Behaviour(eos_state')
          /\ op'.name = "io_write"
                => LET r == eos_handler(other, scope.io_addrs[op'.a], MODE_WRITE, W32(op'.b))
                   IN  Behaviour(r.st) = Behaviour(eos_state')
          /\ op'.name = "tick"
                => Behaviour(eos_interrupt_timer_cb(other)) = Behaviour(eos_state') ]_vars

\* with every mask set, a read of the narrow clock after two ticks returns 0x200,
\* records it and writes a log line, while the timer interrupt waits
C23_Witness ==
    /\ eos_state.loglevel = LogMasks
    /\ op.name = "io_read" /\ scope.io_addrs[op.a] = <<49188, 8212>>
    /\ op.ret = W32(2 * DIGIC_TIMER_STEP)
    /\ eos_state.digic_timer20_last_read = 2 * DIGIC_TIMER_STEP
    /\ eos_state.log_last = "TIMER"
    /\ eos_state.irq_id = TIMER_INTERRUPT

----------------------------------------------------------------------------
(* Pending interrupts that a tick cannot activate *)

\* C24: in a tick, an id with scheduled = 1 that is disabled, or that is scanned
\* while an interrupt is active (one active before the tick or a higher id activated
\* earlier in the scan), keeps scheduled = 1 and its enabled flag and is not
\* activated; an id with scheduled = 1 that is enabled and scanned while no
\* interrupt is active is activated by that tick; between ticks scheduled stays 1,
\* so the id is activated by the first tick that finds it enabled and unblocked.
C24_PendingRetried ==
    [][ \A id \in scope.ids :
          eos_state.irq_schedule[id] = 1
              => /\ (op'.name = "tick" /\ op'.a = 1
                        /\ (~eos_state.irq_enabled[id] \/ Blocked(eos_state, id)))
                       => /\ eos_state'.irq_schedule[id] = 1
                          /\ eos_state'.irq_enabled[id] = eos_state.irq_enabled[id]
                          /\ ~Activated(eos_state, eos_state', id)
                 /\ (op'.name = "tick" /\ op'.a = 1
                        /\ eos_state.irq_enabled[id] /\ ~Blocked(eos_state, id))
                       => /\ Activated(eos_state, eos_state', id)
                          /\ eos_state'.irq_schedule[id] = 0
                 /\ op'.name # "tick"
                       => eos_state'.irq_schedule[id] = 1 ]_vars

\* the second tick activated 5 after 6 had been delivered, and left the masked 7
\* pending
C24_Witness ==
    /\ ticks = 2 /\ op.name = "tick" /\ op.a = 1
    /\ eos_state.irq_id = 5 /\ eos_state.irq_schedule[5] = 0
    /\ eos_state.irq_schedule[6] = 0 /\ ~eos_state.irq_enabled[6]
    /\ eos_state.irq_schedule[7] = 1 /\ ~eos_state.irq_enabled[7]

----------------------------------------------------------------------------
(* Output compare of one HPTimer and one UTimer written ahead of the clock, *)
(* at clock values around the wrap of the 20-bit and 32-bit counters        *)

ScopeFire ==
    [ hp_slots  |-> {6},
      ut_slots  |-> {0},
      offsets   |-> {0, 255, 256},
      max_ticks |-> MaxTicksFire ]

InitFire ==
    /\ \E clock \in CompareClocks, en \in BOOLEAN :
          eos_state = [InitState EXCEPT
                          !.digic_timer32 = clock,
                          !.digic_timer20 = (clock[1] % 16) * 65536 + clock[2],
                          !.irq_enabled[utimer_interrupts[0]] = en,
                          !.irq_enabled[hptimer_interrupts[6]] = en]
    /\ op = Op("init", 0, 0, W32(0))
    /\ ticks = 0
    /\ track = FireIdle
    /\ flight = "none"
    /\ scope = ScopeFire
    /\ threads = NoThreads

NextFire ==
    \/ HPCompareWrite
    \/ UTCompareWrite
    \/ ActiveWrite
    \/ Tick

SpecFire == InitFire /\ [][NextFire]_vars

\* the smallest multiple of STEP above clock + d, d >= 0, as a distance from the clock
Ahead(d) == (d \div DIGIC_TIMER_STEP + 1) * DIGIC_TIMER_STEP

\* C25: a compare write of clock + d, d >= 0, whose rounded target lies
\* Ahead(d) > 0 ahead of the clock sets output_compare to that target (modulo 2^20
\* for an HPTimer, modulo 2^32 for a UTimer); the timer, if active then, sets
\* triggered and raises its interrupt in the tick Ahead(d) / STEP ticks after the
\* write, and triggered stays clear in every earlier tick.
C25_ExactFiring ==
    [][ /\ op'.name = "hp_compare"
              => eos_state'.HPTimers[op'.a].output_compare
                     = (eos_state.digic_timer20 + Ahead(op'.b)) % (DIGIC_TIMER20_MASK + DIGIC_TIMER_STEP)
        /\ op'.name = "ut_compare"
              => eos_state'.UTimers[op'.a].output_compare
                     = W32Add(eos_state.digic_timer32, Ahead(op'.b))
        /\ (op'.name = "tick" /\ op'.a = 1 /\ track.kind = "fire_hp")
              => IF track.n + 1 = track.d /\ eos_state.HPTimers[track.id].active # W32(0)
                 THEN /\ eos_state'.HPTimers[track.id].triggered = W32(1)
                      /\ Raised(eos_state', hptimer_interrupts[track.id])
                 ELSE /\ eos_state'.HPTimers[track.id].triggered = W32(0)
                      /\ ~Raised(eos_state', hptimer_interrupts[track.id])
        /\ (op'.name = "tick" /\ op'.a = 1 /\ track.kind = "fire_ut")
              => IF track.n + 1 = track.d /\ eos_state.UTimers[track.id].active # W32(0)
                 THEN /\ eos_state'.UTimers[track.id].triggered = W32(1)
                      /\ Raised(eos_state', utimer_interrupts[track.id])
                 ELSE /\ eos_state'.UTimers[track.id].triggered = W32(0)
                      /\ ~Raised(eos_state', utimer_interrupts[track.id]) ]_vars

\* HPTimer 6, written clock + 0x100 at clock 0xFFE00 (target 0 after the wrap), has
\* fired in the second tick, which wrapped the clock to 0
C25_Witness ==
    /\ op.name = "tick" /\ op.a = 1 /\ ticks = 2
    /\ eos_state.digic_timer20 = 0
    /\ eos_state.HPTimers[6].output_compare = 0
    /\ eos_state.HPTimers[6].triggered = W32(1)
    /\ eos_state.irq_id = HPTIMER_INTERRUPT
    /\ eos_state.UTimers[0].triggered = W32(0)

----------------------------------------------------------------------------
(* Two HPTimers that share HPTIMER_INTERRUPT *)

ScopeShared ==
    [ hp_slots     |-> {6, 7},
      ut_slots     |-> {0},
      offsets      |-> {0},
      enable_ids   |-> {HPTIMER_INTERRUPT},
      enable_addrs |-> {<<49184, 4112>>},
      reason_addrs |-> {<<49184, 4096>>},
      max_ticks    |-> MaxTicksShared ]

InitShared ==
    /\ eos_state = InitState
    /\ op = Op("init", 0, 0, W32(0))
    /\ ticks = 0
    /\ track = NoTrack
    /\ flight = "none"
    /\ scope = ScopeShared
    /\ threads = NoThreads

NextShared ==
    \/ HPCompareWrite
    \/ ActiveWrite
    \/ EnableWrite
    \/ ReasonRead
    \/ Tick

SpecShared == InitShared /\ [][NextShared]_vars

\* the HPTimer slots mapped to id that match the clock of the tick made by the step
Matching(id) ==
    {pos \in scope.hp_slots :
        /\ hptimer_interrupts[pos] = id
        /\ eos_state.HPTimers[pos].active # W32(0)
        /\ eos_state.HPTimers[pos].output_compare = eos_state'.digic_timer20}

\* C26: when two or more HPTimer slots mapped to HPTIMER_INTERRUPT match in one
\* tick, every one of them has triggered set after the tick and the interrupt is
\* triggered once: with the id neither pending nor active before the tick, it is
\* active (immediate path, line raised once, nothing left scheduled) or pending
\* (scheduled = 1) after it, never both.
C26_SharedOnce ==
    [][ (/\ op'.name = "tick" /\ op'.a = 1
         /\ Cardinality(Matching(HPTIMER_INTERRUPT)) >= 2)
            => /\ \A pos \in Matching(HPTIMER_INTERRUPT) :
                      eos_state'.HPTimers[pos].triggered = W32(1)
               /\ (eos_state.irq_schedule[HPTIMER_INTERRUPT] = 0
                      /\ eos_state.irq_id # HPTIMER_INTERRUPT)
                     => IF eos_state.irq_enabled[HPTIMER_INTERRUPT] /\ eos_state.irq_id = 0
                        THEN /\ eos_state'.irq_id = HPTIMER_INTERRUPT
                             /\ eos_state'.irq_schedule[HPTIMER_INTERRUPT] = 0
                             /\ eos_state'.hard_raised = 1
                        ELSE /\ eos_state'.irq_id = eos_state.irq_id
                             /\ eos_state'.irq_schedule[HPTIMER_INTERRUPT] = 1 ]_vars

\* slots 6 and 7 fired together in the first tick: both are triggered, the shared
\* interrupt is active and not scheduled again
C26_Witness ==
    /\ op.name = "tick" /\ op.a = 1 /\ ticks = 1
    /\ eos_state.HPTimers[6].triggered = W32(1)
    /\ eos_state.HPTimers[7].triggered = W32(1)
    /\ eos_state.irq_id = HPTIMER_INTERRUPT
    /\ eos_state.irq_schedule[HPTIMER_INTERRUPT] = 0
    /\ eos_state.hard_raised = 1

----------------------------------------------------------------------------
(* The countdown slots started, stopped and reloaded, the timer interrupt   *)
(* enabled and acknowledged, between ticks                                  *)

ScopeSlots ==
    [ timer_slots  |-> {1, DRYOS_TIMER_ID},
      starts       |-> {0, 1},
      reloads      |-> {0, 512},
      enable_ids   |-> {TIMER_INTERRUPT},
      enable_addrs |-> {<<49184, 4112>>},
      reason_addrs |-> {<<49184, 4096>>},
      max_ticks    |-> MaxTicksSlots ]

InitSlots ==
    /\ eos_state = InitState
    /\ op = Op("init", 0, 0, W32(0))
    /\ ticks = 0
    /\ track = StartIdle
    /\ flight = "none"
    /\ scope = ScopeSlots
    /\ threads = NoThreads

NextSlots ==
    \/ TimerRegWrite
    \/ EnableWrite
    \/ ReasonRead
    \/ Tick

SpecSlots == InitSlots /\ [][NextSlots]_vars

\* enabled, current_value and reload_value of a countdown slot
Slot(st, slot) ==
    << st.timer_enabled[slot], st.timer_current_value[slot], st.timer_reload_value[slot] >>

\* C27: a stop write clears enabled and current_value of its slot and a start write
\* sets enabled and keeps current_value; both keep reload_value and leave every
\* other slot as it was; a tick keeps the current_value of every disabled slot.
C27_StartStop ==
    [][ /\ op'.name = "timer_stop"
              => Slot(eos_state', op'.a)
                     = << FALSE, W32(0), eos_state.timer_reload_value[op'.a] >>
        /\ op'.name = "timer_start"
              => Slot(eos_state', op'.a)
                     = << TRUE, eos_state.timer_current_value[op'.a],
                          eos_state.timer_reload_value[op'.a] >>
        /\ op'.name \in {"timer_start", "timer_stop"}
              => \A other \in TimerSlots \ {op'.a} :
                     Slot(eos_state', other) = Slot(eos_state, other)
        /\ op'.name = "tick"
              => \A slot \in TimerSlots :
                     ~eos_state.timer_enabled[slot]
                         => eos_state'.timer_current_value[slot]
                                = eos_state.timer_current_value[slot] ]_vars

\* slot 1, running and at 0x200, was started again: it keeps that value, while the
\* stopped system timer stays at 0
C27_Witness ==
    /\ op.name = "timer_start" /\ op.a = 1 /\ ticks = 3
    /\ eos_state.timer_enabled[1]
    /\ eos_state.timer_current_value[1] = W32(2 * DIGIC_TIMER_STEP)
    /\ eos_state.timer_reload_value[1] = W32(512)
    /\ ~eos_state.timer_enabled[DRYOS_TIMER_ID]
    /\ eos_state.timer_current_value[DRYOS_TIMER_ID] = W32(0)
    /\ eos_state.timer_reload_value[DRYOS_TIMER_ID] = W32(512)


\* the interrupt controller part of the device state
IntState(st) == << st.irq_id, st.irq_schedule, st.irq_enabled, st.cpu_hard, st.hard_raised >>

\* C28: a start write to the system timer slot has the effect of
\* eos_trigger_int(TIMER_INTERRUPT, reload_value >> 8): with period 0, the interrupt
\* enabled and none active the id is active at once, otherwise it is scheduled
\* (after the period if it is enabled, after 1 tick if it is masked); started with
\* the interrupt enabled and a period P >= 1, the id is activated by no tick before
\* the P-th after the start and by the P-th if it is enabled and no interrupt is
\* active then; a start write to another slot leaves the interrupt controller as
\* it was.
C28_SystemTimerStart ==
    [][ /\ (op'.name = "timer_start" /\ op'.a # DRYOS_TIMER_ID)
              => IntState(eos_state') = IntState(eos_state)
        /\ (op'.name = "timer_start" /\ op'.a = DRYOS_TIMER_ID)
              => IF /\ Period(eos_state) = 0
                    /\ eos_state.irq_enabled[TIMER_INTERRUPT] /\ eos_state.irq_id = 0
                 THEN /\ eos_state'.irq_id = TIMER_INTERRUPT
                      /\ eos_state'.cpu_hard
                      /\ eos_state'.irq_schedule = eos_state.irq_schedule
                 ELSE /\ eos_state'.irq_id = eos_state.irq_id
                      /\ eos_state'.irq_schedule[TIMER_INTERRUPT]
                             = IF eos_state.irq_enabled[TIMER_INTERRUPT]
                               THEN Max(Period(eos_state), 1) ELSE 1
        /\ (op'.name = "tick" /\ op'.a = 1 /\ track.kind = "start" /\ track.d >= 1)
              => /\ track.n + 1 < track.d
                       => ~Activated(eos_state, eos_state', TIMER_INTERRUPT)
                 /\ (/\ track.n + 1 = track.d
                     /\ eos_state.irq_enabled[TIMER_INTERRUPT] /\ eos_state.irq_id = 0)
                       => Activated(eos_state, eos_state', TIMER_INTERRUPT) ]_vars

\* the system timer, started with reload value 0x200 and its interrupt enabled, has
\* counted two ticks and the second tick activated the timer interrupt; slot 1 runs
\* as well
C28_Witness ==
    /\ op.name = "tick" /\ op.a = 1 /\ ticks = 2
    /\ eos_state.timer_enabled[DRYOS_TIMER_ID]
    /\ eos_state.timer_reload_value[DRYOS_TIMER_ID] = W32(512)
    /\ eos_state.timer_current_value[DRYOS_TIMER_ID] = W32(512)
    /\ eos_state.irq_id = TIMER_INTERRUPT /\ eos_state.cpu_hard
    /\ eos_state.timer_enabled[1]
    /\ track = StartIdle

----------------------------------------------------------------------------
(* The two clocks under ticks, with the CPU stopped and resumed, and under  *)
(* reads and writes of the clock and compare registers                      *)

\* 0xC0242014 and 0xD400000C the narrow and the wide clock, 0xC0243164 the compare
\* register of HPTimer 6, 0xD4000248 the compare register of UTimer 0
ScopeClock ==
    [ io_addrs   |-> << <<49188, 8212>>, <<54272, 12>>, <<49188, 12644>>, <<54272, 584>> >>,
      io_values  |-> << {4660}, {4660}, {0}, {0} >>,
      io_reads   |-> {1, 2},
      max_ticks  |-> MaxTicksClock ]

InitClock ==
    /\ \E clock \in CompareClocks :
          eos_state = [InitState EXCEPT
                          !.digic_timer32 = clock,
                          !.digic_timer20 = (clock[1] % 16) * 65536 + clock[2]]
    /\ op = Op("init", 0, 0, W32(0))
    /\ ticks = 0
    /\ track = OffTrack
    /\ flight = "none"
    /\ scope = ScopeClock
    /\ threads = NoThreads

NextClock ==
    \/ IoRead
    \/ IoWrite
    \/ GdbStop
    \/ GdbCont
    \/ Tick

SpecClock == InitClock /\ [][NextClock]_vars

\* C29: both clocks are multiples of STEP and the narrow clock is below 2^20 in
\* every state; a tick that is not suppressed advances both by STEP, the narrow
\* clock from 0xFFF00 to 0 and the wide clock from 0xFFFFFF00 to 0; a suppressed
\* tick and every register access leave both as they were; a read of a clock
\* register returns the clock and records it as the last value read.
C29_FreeRunningClocks ==
    /\ [](/\ eos_state.digic_timer20 % DIGIC_TIMER_STEP = 0
          /\ eos_state.digic_timer20 >= 0 /\ eos_state.digic_timer20 < 1048576
          /\ eos_state.digic_timer32[2] % DIGIC_TIMER_STEP = 0)
    /\ [][ /\ (op'.name = "tick" /\ op'.a = 1)
                 => /\ eos_state'.digic_timer20
                          = IF eos_state.digic_timer20 = 1048320 THEN 0
                            ELSE eos_state.digic_timer20 + DIGIC_TIMER_STEP
                    /\ eos_state'.digic_timer32
                          = IF eos_state.digic_timer32 = <<65535, 65280>> THEN <<0, 0>>
                            ELSE IF eos_state.digic_timer32[2] = 65280
                            THEN <<eos_state.digic_timer32[1] + 1, 0>>
                            ELSE <<eos_state.digic_timer32[1],
                                   eos_state.digic_timer32[2] + DIGIC_TIMER_STEP>>
           /\ ~(op'.name = "tick" /\ op'.a = 1)
                 => /\ eos_state'.digic_timer20 = eos_state.digic_timer20
                    /\ eos_state'.digic_timer32 = eos_state.digic_timer32
           /\ (op'.name = "io_read" /\ op'.a = 1)
                 => /\ op'.ret = W32(eos_state.digic_timer20)
                    /\ eos_state'.digic_timer20_last_read = eos_state.digic_timer20
           /\ (op'.name = "io_read" /\ op'.a = 2)
                 => /\ op'.ret = eos_state.digic_timer32
                    /\ eos_state'.digic_timer32_last_read = eos_state.digic_timer32 ]_vars

\* the narrow clock, read after the tick that wrapped it from 0xFFF00, is 0 while the
\* wide clock is 0x100000
C29_Witness ==
    /\ op.name = "io_read" /\ op.a = 1 /\ op.ret = W32(0) /\ ticks = 1
    /\ eos_state.digic_timer20 = 0
    /\ eos_state.digic_timer32 = <<16, 0>>
    /\ eos_state.digic_timer20_last_read = 0

----------------------------------------------------------------------------
(* The interrupt line and the active id *)

\* C30: in every state reached through trigger calls, ticks, enable writes, reads of
\* the reason register and writes to the reset-IRQ register of the main interrupt
\* controller, the CPU_INTERRUPT_HARD line is asserted if and only if irq_id is not 0.
C30_LineAgreesWithActiveId ==
    eos_state.cpu_hard <=> (eos_state.irq_id # 0)

\* interrupt 5 was acknowledged by a read of the reason register at 0xC0201004, which
\* returned 5 << 2: the line is down and no id is active; the HPTimer interrupt is
\* still pending
C30_Witness ==
    /\ op.name = "reason_read" /\ op.a = 4100 /\ op.ret = W32(20)
    /\ eos_state.irq_id = 0 /\ ~eos_state.cpu_hard
    /\ eos_state.irq_schedule[HPTIMER_INTERRUPT] = 1

\* C32 as stated: once the system timer has been started, after each activation of the
\* periodic id the id is scheduled again (irq_schedule >= 1), for every reload value,
\* reload values below 256 included.
C32_PeriodicNeverStops ==
    [][ Activated(eos_state, eos_state', TIMER_INTERRUPT)
            => eos_state'.irq_schedule[TIMER_INTERRUPT] >= 1 ]_vars

\* C32, what the code keeps: an activation by the tick leaves the id scheduled when
\* the period reload_value >> 8 is at least 1, and leaves irq_schedule = 0 when the
\* reload value is below 256; an activation by the start write leaves irq_schedule as
\* it was.
C32_RearmedFromPeriodOne ==
    [][ /\ (op'.name = "tick" /\ Activated(eos_state, eos_state', TIMER_INTERRUPT))
            => eos_state'.irq_schedule[TIMER_INTERRUPT]
                   = IF Period(eos_state) = 0 THEN 0 ELSE Max(Period(eos_state) - 1, 1)
        /\ (op'.name = "timers_write" /\ Activated(eos_state, eos_state', TIMER_INTERRUPT))
            => eos_state'.irq_schedule[TIMER_INTERRUPT]
                   = eos_state.irq_schedule[TIMER_INTERRUPT] ]_vars

\* the tick activated the periodic id of the started system timer with a reload value
\* below 256: the id is active and no longer scheduled
C32_Witness ==
    /\ op.name = "tick"
    /\ eos_state.irq_id = TIMER_INTERRUPT
    /\ eos_state.timer_enabled[DRYOS_TIMER_ID]
    /\ Period(eos_state) = 0
    /\ eos_state.irq_schedule[TIMER_INTERRUPT] = 0

\* C34 as stated: after every compare write, on the rounded path and on the
\* snap-forward path and at every clock value, output_compare of an HPTimer is a
\* multiple of DIGIC_TIMER_STEP below 2^20 and output_compare of a UTimer is a multiple
\* of DIGIC_TIMER_STEP below 2^32.
C34_CompareInDomain ==
    [][ /\ op'.name = "hp_compare"
              => /\ eos_state'.HPTimers[op'.a].output_compare % DIGIC_TIMER_STEP = 0
                 /\ eos_state'.HPTimers[op'.a].output_compare >= 0
                 /\ eos_state'.HPTimers[op'.a].output_compare < 2 ^ 20
        /\ op'.name = "ut_compare"
              => /\ eos_state'.UTimers[op'.a].output_compare \in (0 .. 65535) \X (0 .. 65535)
                 /\ eos_state'.UTimers[op'.a].output_compare[2] % DIGIC_TIMER_STEP = 0 ]_vars

\* C34, what the code keeps: the same, except for the HPTimer write that snaps
\* forward at digic_timer20 = 0xFFF00, which stores 0x100000.
C34_CompareInDomainBelowWrap ==
    [][ /\ op'.name = "hp_compare"
              => /\ eos_state'.HPTimers[op'.a].output_compare % DIGIC_TIMER_STEP = 0
                 /\ eos_state'.HPTimers[op'.a].output_compare >= 0
                 /\ IF Behind(op'.b) /\ eos_state.digic_timer20 = DIGIC_TIMER20_MASK
                    THEN eos_state'.HPTimers[op'.a].output_compare = 2 ^ 20
                    ELSE eos_state'.HPTimers[op'.a].output_compare < 2 ^ 20
        /\ op'.name = "ut_compare"
              => /\ eos_state'.UTimers[op'.a].output_compare \in (0 .. 65535) \X (0 .. 65535)
                 /\ eos_state'.UTimers[op'.a].output_compare[2] % DIGIC_TIMER_STEP = 0 ]_vars

\* a compare value behind the clock was written to HPTimer 6 at digic_timer20 =
\* 0xFFF00: the slot holds 0x100000, a value the 20-bit clock never takes
C34_Witness ==
    /\ op.name = "hp_compare"
    /\ Behind(op.b)
    /\ eos_state.digic_timer20 = DIGIC_TIMER20_MASK
    /\ eos_state.HPTimers[6].output_compare = 2 ^ 20

\* C38 as stated: with instruction counting on, whenever a polled transfer completes
\* dma_wait is exactly 0, so the completion assertion never fails, for every
\* data-ready pattern of the card and every sequence of count writes and start writes.
C38_CountdownExact ==
    eos_state.use_icount
        => /\ ~eos_state.aborted
           /\ (op.name = "tick" /\ eos_state.cf.write_done) => eos_state.cf.dma_wait = 0
           /\ (op.name = "tick" /\ eos_state.cf.read_done
                   /\ ~eos_state.cf.write_done /\ eos_state.cf.dma_write_request = 0)
                  => eos_state.cf.dma_wait = 0

\* C38, what the code keeps: with instruction counting on, a tick fails the completion
\* assertion exactly when a pending request moves its last data (or has none to move)
\* while dma_wait, before the decrement made for that request, is already 0 or below:
\* for the read request that is dma_wait at the start of the tick, for the write
\* request dma_wait less one if a read request was polled before it.
C38_AssertionFailsBelowZero ==
    [][ (op'.name = "tick" /\ op'.a = 1 /\ eos_state.use_icount)
            => LET st    == [eos_state EXCEPT !.cf.drq = op'.b]
                   count == W32Int(st.cf.dma_count)
                   rd    == st.cf.dma_read_request # 0
                   wr    == st.cf.dma_write_request # 0
                   rend  == st.cf.dma_read + 4 * cfdma_words(st, st.cf.dma_read) = count
                   wend  == st.cf.dma_written + 4 * cfdma_words(st, st.cf.dma_written) = count
                   wwait == st.cf.dma_wait - (IF rd THEN 1 ELSE 0)
               IN  eos_state'.aborted
                      <=> \/ rd /\ rend /\ st.cf.dma_wait <= 0
                          \/ wr /\ wend /\ wwait <= 0 ]_vars

\* with instruction counting on, a read was started without a count write after the
\* one before it had completed: the tick found dma_wait = 0, counted it down to -1
\* and stopped at the assertion
C38_Witness ==
    /\ op.name = "tick"
    /\ eos_state.use_icount
    /\ eos_state.aborted
    /\ eos_state.cf.dma_count = W32(4)
    /\ eos_state.cf.dma_read = 4
    /\ eos_state.cf.dma_wait = -1
    /\ eos_state.cf.dma_write_request = 0

\* C39: the tick in which a polled transfer completes clears its request flag; while
\* the flag of a request is clear a tick moves no data for it and signals no
\* completion for it, and with no request pending a tick leaves dma_wait alone and
\* triggers no completion interrupt (the interrupt state is what the tick gives with
\* the CF interrupts switched off); a request flag is set again only by a start write
\* to the command register.
C39_CompletesOncePerStart ==
    [][ /\ (op'.name = "tick" /\ op'.a = 1)
            => /\ eos_state'.cf.read_done => eos_state'.cf.dma_read_request = 0
               /\ eos_state'.cf.write_done => eos_state'.cf.dma_write_request = 0
               /\ eos_state.cf.dma_read_request = 0
                     => /\ eos_state'.cf.dma_read = eos_state.cf.dma_read
                        /\ eos_state'.ram = eos_state.ram
                        /\ ~eos_state'.cf.read_done
               /\ eos_state.cf.dma_write_request = 0
                     => /\ eos_state'.cf.dma_written = eos_state.cf.dma_written
                        /\ ~eos_state'.cf.write_done
               /\ CfPending(eos_state) = 0
                     => LET off == eos_interrupt_timer_cb(
                                       [eos_state EXCEPT !.cf.drq = op'.b,
                                                         !.cf.interrupt_enabled = W32(0)])
                        IN  /\ eos_state'.cf.dma_wait = eos_state.cf.dma_wait
                            /\ ~eos_state'.aborted
                            /\ eos_state'.irq_id = off.irq_id
                            /\ eos_state'.irq_schedule = off.irq_schedule
                            /\ eos_state'.irq_enabled = off.irq_enabled
        /\ (eos_state.cf.dma_read_request = 0 /\ eos_state'.cf.dma_read_request # 0)
            => (op'.name = "cf_write" /\ op'.a = 16 /\ op'.b = 57)
        /\ (eos_state.cf.dma_write_request = 0 /\ eos_state'.cf.dma_write_request # 0)
            => (op'.name = "cf_write" /\ op'.a = 16 /\ op'.b = 61) ]_vars

\* a read of 4 bytes completed in the first tick, with the CF interrupt enabled; the
\* second tick ran with the data still ready and left the transfer as it was
C39_Witness ==
    /\ op.name = "tick" /\ op.a = 1 /\ op.b = 1 /\ ticks = 2
    /\ ~eos_state.use_icount
    /\ eos_state.cf.interrupt_enabled = W32(1)
    /\ eos_state.cf.dma_count = W32(4) /\ eos_state.cf.dma_read = 4
    /\ eos_state.cf.dma_read_request = 0 /\ eos_state.cf.dma_write_request = 0
    /\ ~eos_state.cf.read_done
    /\ eos_state.cf.dma_wait = -1
    /\ Len(eos_state.ram) = 1

----------------------------------------------------------------------------
(* Requests and activations of one interrupt id.  Interrupts 5 and 6 are   *)
(* triggered with delays 0 .. 2, enabled, acknowledged and ticked; the     *)
(* requests of id 5 are observed.                                          *)

MaxTicksStale == 3

ScopeStale ==
    [ ids          |-> {5, 6},
      delays       |-> [id \in {5, 6} |-> 2],
      enable_ids   |-> {5, 6},
      enable_addrs |-> {<<49184, 4112>>},
      reason_addrs |-> {<<49184, 4096>>},
      reset_addrs  |-> {},
      hp_slots     |-> {},
      vx_regs      |-> {},
      max_ticks    |-> MaxTicksStale ]

InitStale ==
    /\ eos_state = InitState
    /\ op = Op("init", 0, 0, W32(0))
    /\ ticks = 0
    /\ track = ServedTrack(5)
    /\ flight = "none"
    /\ scope = ScopeStale
    /\ threads = NoThreads

NextStale ==
    \/ Trigger
    \/ EnableWrite
    \/ ReasonRead
    \/ Tick

SpecStale == InitStale /\ [][NextStale]_vars

\* C31 as stated: every activation of a non-periodic id follows a trigger call for it
\* made after its previous activation, and a trigger call with delay 0 that activates
\* the id at once leaves scheduled[id] = 0.
C31_NoStaleRedelivery ==
    [][ /\ (op'.name = "tick" /\ Activated(eos_state, eos_state', track.id))
            => track.kind = "requested"
        /\ (op'.name = "trigger" /\ op'.b = 0 /\ Activated(eos_state, eos_state', op'.a))
            => eos_state'.irq_schedule[op'.a] = 0 ]_vars

\* C31, what the code keeps: the trigger call that activates an id at once leaves
\* scheduled[id] as it was, so a tick activates an id only after a request for it that
\* no tick has served yet: one made since the last activation, or an older one that an
\* immediate activation left scheduled.
C31_RequestServedOnce ==
    [][ /\ (op'.name = "tick" /\ Activated(eos_state, eos_state', track.id))
            => track.kind \in {"requested", "left"}
        /\ (op'.name = "trigger" /\ Activated(eos_state, eos_state', op'.a))
            => eos_state'.irq_schedule[op'.a] = eos_state.irq_schedule[op'.a] ]_vars

\* a tick activated id 5 on a request that an immediate activation had left scheduled
C31_Witness ==
    /\ op.name = "tick"
    /\ eos_state.irq_id = 5
    /\ track.kind = "served"
    /\ track.n = 1

----------------------------------------------------------------------------
(* The HPTimer slots under register writes: slots 4, 5 and 6 have their     *)
(* compare and active registers written between ticks; their interrupts are *)
(* enabled and acknowledged.                                                *)

MaxTicksHPSlots == 2

ScopeHPSlots ==
    [ hp_slots     |-> {4, 5, 6},
      enable_ids   |-> {HPTIMER_INTERRUPT},
      enable_addrs |-> {<<49184, 4112>>},
      reason_addrs |-> {<<49184, 4096>>},
      max_ticks    |-> MaxTicksHPSlots ]

InitHPSlots ==
    /\ eos_state = InitState
    /\ op = Op("init", 0, 0, W32(0))
    /\ ticks = 0
    /\ track = OffTrack
    /\ flight = "none"
    /\ scope = ScopeHPSlots
    /\ threads = NoThreads

NextHPSlots ==
    \/ HPTimerWrite
    \/ EnableWrite
    \/ ReasonRead
    \/ Tick

SpecHPSlots == InitHPSlots /\ [][NextHPSlots]_vars

\* C33 as stated: in every state reachable by writes to the active and compare
\* registers of the HPTimer slots, slots 4 and 5 included, no tick fails the assertion
\* that a firing slot maps to an interrupt id above 0 and below 64.
C33_AssertionHolds == ~eos_state.aborted

\* C33, what the code keeps: a tick fails the assertion exactly when slot 4 or slot 5,
\* whose entry of hptimer_interrupts is 0, is active with its compare value equal to
\* the clock; no other slot makes it fail.
C33_AssertionFailsOnUnmappedSlot ==
    [][ (op'.name = "tick" /\ op'.a = 1)
            => (eos_state'.aborted
                    <=> \E pos \in {4, 5} : hptimer_fires(eos_state', pos)) ]_vars

\* a tick found slot 4 active with its compare value equal to the clock and stopped at
\* the assertion, while slot 6 did not fire
C33_Witness ==
    /\ op.name = "tick"
    /\ eos_state.aborted
    /\ hptimer_fires(eos_state, 4)
    /\ eos_state.HPTimers[4].triggered = W32(1)
    /\ ~hptimer_fires(eos_state, 6)

----------------------------------------------------------------------------
(* Output compare of one HPTimer and one UTimer written up to one step      *)
(* behind the clock, so that the rounded target is the clock value itself,  *)
(* at clock values around the wrap of both counters                         *)

MaxTicksEqual == 3

ScopeEqual ==
    [ hp_slots  |-> {6},
      ut_slots  |-> {0},
      offsets   |-> {-256, -1},
      max_ticks |-> MaxTicksEqual ]

InitEqual ==
    /\ \E clock \in CompareClocks, en \in BOOLEAN :
          eos_state = [InitState EXCEPT
                          !.digic_timer32 = clock,
                          !.digic_timer20 = (clock[1] % 16) * 65536 + clock[2],
                          !.irq_enabled[utimer_interrupts[0]] = en,
                          !.irq_enabled[hptimer_interrupts[6]] = en]
    /\ op = Op("init", 0, 0, W32(0))
    /\ ticks = 0
    /\ track = EqualIdle
    /\ flight = "none"
    /\ scope = ScopeEqual
    /\ threads = NoThreads

NextEqual ==
    \/ HPCompareWrite
    \/ UTCompareWrite
    \/ ActiveWrite
    \/ Tick

SpecEqual == InitEqual /\ [][NextEqual]_vars

\* C35 as stated: when a compare value is written whose rounded target equals the
\* clock (a value in [clock - STEP, clock - 1]), a timer that is active fires in the
\* next tick: triggered is set and its interrupt is raised.
C35_FiresWithinOneTick ==
    [][ /\ (/\ op'.name = "tick" /\ op'.a = 1 /\ track.kind = "equal_hp"
            /\ eos_state.HPTimers[track.id].active # W32(0))
              => /\ eos_state'.HPTimers[track.id].triggered = W32(1)
                 /\ Raised(eos_state', hptimer_interrupts[track.id])
        /\ (/\ op'.name = "tick" /\ op'.a = 1 /\ track.kind = "equal_ut"
            /\ eos_state.UTimers[track.id].active # W32(0))
              => /\ eos_state'.UTimers[track.id].triggered = W32(1)
                 /\ Raised(eos_state', utimer_interrupts[track.id]) ]_vars

\* C35, what the code keeps: such a write stores the clock value itself as
\* output_compare (the signed distance 0 is not below 0, so the value is not moved
\* forward), and the next tick, which compares after stepping the clock, does not fire
\* the timer: the values are equal again only after the clock has run through its
\* whole domain.
C35_EqualTargetWaits ==
    [][ /\ (op'.name = "hp_compare" /\ OnClock(op'.b))
              => eos_state'.HPTimers[op'.a].output_compare = eos_state.digic_timer20
        /\ (op'.name = "ut_compare" /\ OnClock(op'.b))
              => eos_state'.UTimers[op'.a].output_compare = eos_state.digic_timer32
        /\ (op'.name = "tick" /\ op'.a = 1 /\ track.kind = "equal_hp")
              => /\ eos_state'.HPTimers[track.id].triggered = W32(0)
                 /\ ~Raised(eos_state', hptimer_interrupts[track.id])
                 /\ eos_state'.HPTimers[track.id].output_compare
                        = (eos_state'.digic_timer20 + DIGIC_TIMER20_MASK)
                              % (DIGIC_TIMER20_MASK + DIGIC_TIMER_STEP)
        /\ (op'.name = "tick" /\ op'.a = 1 /\ track.kind = "equal_ut")
              => /\ eos_state'.UTimers[track.id].triggered = W32(0)
                 /\ ~Raised(eos_state', utimer_interrupts[track.id])
                 /\ eos_state'.UTimers[track.id].output_compare
                        = W32Off(eos_state'.digic_timer32, -DIGIC_TIMER_STEP) ]_vars

\* HPTimer 6, active, was written a value just behind the clock 0x7FF00; the tick that followed
\* did not fire it and left its compare value one step behind the clock
C35_Witness ==
    /\ op.name = "tick" /\ op.a = 1 /\ ticks = 1
    /\ eos_state.digic_timer20 = 524288
    /\ eos_state.HPTimers[6].active = W32(1)
    /\ eos_state.HPTimers[6].output_compare = 524032
    /\ eos_state.HPTimers[6].triggered = W32(0)
    /\ track = EqualIdle

----------------------------------------------------------------------------
(* The entries of the handler table as results of the lookup: one entry is  *)
(* drawn and looked up at every address of its range that can be its first  *)
(* address left free by the entries declared before it                      *)

\* the addresses of entry pos at which a part of its range not covered by earlier
\* entries would begin: its start, and the address after the end of an earlier entry
handler_first_free(pos) ==
    {a \in {eos_handlers[pos].start}
             \cup {W32Add(eos_handlers[q].end, 1) : q \in 1 .. pos - 1} :
        handler_contains(pos, a)}

\* the addresses among them for which eos_find_handler returns entry pos
handler_found_at(pos) == {a \in handler_first_free(pos) : eos_find_handler(a) = pos}

\* the lookups of one entry
Reach ==
    /\ op.name = "input"
    /\ op' = Op("reach", op.a, Cardinality(handler_found_at(op.a)), 0)
    /\ UNCHANGED <<eos_state, ticks, track, flight, scope, threads>>

InitReach ==
    /\ eos_state = InitState
    /\ op \in {Op("input", pos, 0, 0) : pos \in 1 .. Len(eos_handlers)}
    /\ ticks = 0
    /\ track = OffTrack
    /\ flight = "none"
    /\ scope = ScopePrio
    /\ threads = NoThreads

NextReach == Reach

SpecReach == InitReach /\ [][NextReach]_vars

\* C36 as stated: for each entry of the handler table there is an address for which
\* the first-match lookup returns that entry; no entry's range is completely covered
\* by the ranges of the entries declared before it.
C36_EveryEntryReachable == op.name = "reach" => op.b > 0

\* C36, what the table keeps: every entry is returned for some address except the two
\* BOOTX entries, which are declared after the DIGIC6 entry 0xD0000000 - 0xDFFFFFFF
\* that contains both of their ranges.
C36_ReachableExceptBootX ==
    op.name = "reach"
        => IF eos_handlers[op.a].label = "BOOTX"
           THEN /\ op.b = 0
                /\ \E q \in 1 .. op.a - 1 :
                       /\ eos_handlers[q].label = "DIGIC6"
                       /\ handler_contains(q, eos_handlers[op.a].start)
                       /\ handler_contains(q, eos_handlers[op.a].end)
           ELSE op.b > 0

\* the entry BOOTX 0xDFFC0000 - 0xDFFC48FF was looked up: no address returns it
C36_Witness ==
    /\ op.name = "reach"
    /\ eos_handlers[op.a].label = "BOOTX"
    /\ eos_handlers[op.a].start = <<57340, 0>>
    /\ op.b = 0

----------------------------------------------------------------------------
(* Two synchronous DMA channels: source, destination and count written      *)
(* through the addresses of channels 1 and 2, transfers started on channel  *)
(* 1, its completion interrupt enabled, between ticks                       *)

MaxTicksChannels == 2

ScopeChannels ==
    [ dma_channels |-> {1, 2},
      dma_values   |-> [channel \in {1, 2} |-> [reg \in {8, 24, 28, 32} |->
                           CASE reg = 8  -> IF channel = 1 THEN {1} ELSE {}
                             [] reg = 24 -> IF channel = 1 THEN {} ELSE {65536}
                             [] reg = 28 -> IF channel = 1 THEN {131072} ELSE {}
                             [] reg = 32 -> IF channel = 1 THEN {1} ELSE {20000}]],
      enable_ids   |-> {dma_interruptId[2]},
      enable_addrs |-> {<<49184, 4112>>},
      max_ticks    |-> MaxTicksChannels ]

InitChannels ==
    /\ eos_state = InitState
    /\ op = Op("init", 0, 0, W32(0))
    /\ ticks = 0
    /\ track = OwnRegs
    /\ flight = "none"
    /\ scope = ScopeChannels
    /\ threads = NoThreads

NextChannels ==
    \/ DmaChannelWrite
    \/ EnableWrite
    \/ Tick

SpecChannels == InitChannels /\ [][NextChannels]_vars

\* C37 as stated: a write to the src, dst or count register of DMA channel i leaves
\* unchanged the src, dst and count that a later start write on another channel j
\* uses: a start on channel 1 copies, and delays its completion interrupt, by the
\* values last written through channel 1.
C37_ChannelIsolation ==
    [][ /\ (op'.name = "dma_channel" /\ op'.a \div 256 # 1)
              => /\ eos_state'.dma_srcAddr = eos_state.dma_srcAddr
                 /\ eos_state'.dma_dstAddr = eos_state.dma_dstAddr
                 /\ eos_state'.dma_count = eos_state.dma_count
        /\ (op'.name = "dma_channel" /\ op'.a = 256 + 8)
              => LET own == eos_handle_dma([eos_state EXCEPT !.dma_srcAddr = W32(track.d),
                                                             !.dma_dstAddr = W32(track.n),
                                                             !.dma_count = W32(track.id)],
                                           1, DmaChannelAddr(1, 8), MODE_WRITE, W32(op'.b)).st
                 IN  /\ eos_state'.ram = own.ram
                     /\ eos_state'.irq_schedule = own.irq_schedule
                     /\ eos_state'.irq_id = own.irq_id ]_vars

\* C37, what the code keeps: the handler has one srcAddr, one dstAddr and one count
\* for all channels. A write through any channel sets them, and a start on channel 1
\* copies count bytes from srcAddr to dstAddr and schedules its completion interrupt
\* count / 10000 ticks ahead with the values last written through any channel.
C37_RegistersShared ==
    [][ /\ (op'.name = "dma_channel" /\ op'.a % 256 = 24)
              => eos_state'.dma_srcAddr = W32(op'.b)
        /\ (op'.name = "dma_channel" /\ op'.a % 256 = 28)
              => eos_state'.dma_dstAddr = W32(op'.b)
        /\ (op'.name = "dma_channel" /\ op'.a % 256 = 32)
              => eos_state'.dma_count = W32(op'.b)
        /\ (op'.name = "dma_channel" /\ op'.a = 256 + 8)
              => /\ eos_state'.ram = dma_copy(eos_state.ram, W32Int(eos_state.dma_srcAddr),
                                              W32Int(eos_state.dma_dstAddr),
                                              W32Int(eos_state.dma_count), 8192)
                 /\ (eos_state.irq_enabled[dma_interruptId[2]]
                        /\ W32Int(eos_state.dma_count) >= 10000)
                       => eos_state'.irq_schedule[dma_interruptId[2]]
                              = W32Int(eos_state.dma_count) \div 10000 ]_vars

\* count 1 was written through channel 1 and count 20000 through channel 2, then a
\* transfer was started on channel 1: its completion interrupt is two ticks ahead
C37_Witness ==
    /\ op.name = "dma_channel" /\ op.a = 256 + 8
    /\ track.id = 1
    /\ eos_state.dma_count = W32(20000)
    /\ eos_state.irq_schedule[dma_interruptId[2]] = 2
    /\ eos_state.irq_id = 0

====
